---------------------------- MODULE Spec2Model ----------------------------
(***************************************************************************)
(* A state-machine model of the retrieval pipeline of claude-context:      *)
(* the indexer (Context.indexCodebase / reindexByChange / processFileList),*)
(* the AST chunker's refinement, the PRF engine, the retriever             *)
(* (semanticSearch / semanticSearchWithPRF), the reranker's lazy           *)
(* initialisation and the embedding cache.  Each component has its own     *)
(* specification over its own group of variables; the other groups stay    *)
(* parked at a fixed value.                                                *)
(***************************************************************************)
EXTENDS Integers, Sequences, FiniteSets, TLC

(***************************************************************************)
(* Bounds of the model.                                                    *)
(***************************************************************************)
\* number of distinct repository-relative paths
NumPaths == 2
\* largest number of chunks the splitter returns for one file
MaxChunksPerFile == 3
\* EMBEDDING_BATCH_SIZE as configured through the environment (>= 1)
EMBEDDING_BATCH_SIZE == 2
\* CHUNK_LIMIT, scaled down from 450000 so that a job can reach it
CHUNK_LIMIT == 3

Paths == 1..NumPaths

\* the paths of S as a list, in path order
PathList(S) == SelectSeq([i \in 1..NumPaths |-> i], LAMBDA p : p \in S)

Range(s) == {s[i] : i \in 1..Len(s)}

Min(a, b) == IF a <= b THEN a ELSE b

Max(a, b) == IF a >= b THEN a ELSE b

(***************************************************************************)
(* State.                                                                  *)
(***************************************************************************)
\* Indexer (Context.indexCodebase, reindexByChange, processFileList)
VARIABLES
    store,           \* the collection: a set of documents [path, ver, n]
    job,             \* the running job: [pc, kind, added, removed, modified]
    delQueue,        \* reindexByChange: files whose chunks are still to delete
    filePaths,       \* processFileList: its filePaths argument
    fileIndex,       \* processFileList: loop variable i
    pendingChunks,   \* chunks of the current file not yet pushed
    chunkBuffer,     \* processFileList: chunkBuffer
    processedFiles,  \* processFileList: processedFiles
    totalChunks,     \* processFileList: totalChunks
    limitReached,    \* processFileList: limitReached
    jobResult,       \* what the caller of the job gets: a result or a raise
    deleteQueried,   \* history: paths deleteFileChunks was called for
    deleteIssued,    \* history: documents handed to vectorDatabase.delete
    inserted,        \* history: documents handed to vectorDatabase.insert*
    dropped,         \* history: chunks of batches whose processing failed
    handed,          \* history: the batches given to processChunkBuffer
    processedChanges, \* reindexByChange: processedChanges
    reports          \* history: the reports given to progressCallback

indexerVars == <<store, job, delQueue, filePaths, fileIndex, pendingChunks,
                 chunkBuffer, processedFiles, totalChunks, limitReached,
                 jobResult, deleteQueried, deleteIssued, inserted, dropped,
                 handed, processedChanges, reports>>

\* Chunker (AstCodeSplitter)
VARIABLES
    chunkSize,      \* AstCodeSplitter.chunkSize
    chunkOverlap,   \* AstCodeSplitter.chunkOverlap
    extracted,      \* the chunks extractChunks returned
    refined,        \* the value of refineChunks
    splitterPc,     \* "parsed", then "extracted", then "refined"
    language,       \* the language split was called with
    rootChildren,   \* tree.rootNode.children
    importGroup,    \* the value of groupConsecutiveImports
    deduplicated    \* the value of deduplicateChunks inside refineChunks

chunkerVars == <<chunkSize, chunkOverlap, extracted, refined, splitterPc,
                 language, rootChildren, importGroup, deduplicated>>

\* Reranker (BaseReranker, HuggingFaceReranker)
VARIABLES
    rerankerEnabled,        \* config.enabled
    initialized,            \* BaseReranker.initialized
    initializationPromise,  \* BaseReranker.initializationPromise: 0 is null
    promises,               \* the promises doInitialize returned, by number
    callers                 \* the callers of initialize()

rerankerVars == <<rerankerEnabled, initialized, initializationPromise,
                  promises, callers>>

\* Embedding cache (EmbeddingCache)
VARIABLES
    cacheAvailable,  \* db # null and initialized
    rows,            \* table embeddings: content_hash -> row or NoRow
    now,             \* Date.now()
    setHistory,      \* history: per hash, the vectors given to set / setMany
    evictedSince,    \* history: per hash, a cleanup deleted its row since
    got,             \* the last get: [hash, value], NoGet once state moved on
    initializeEnd,   \* how the last initialize() ended: "none" before any
    cacheCall,       \* the last getMany or embedding step, NoCall otherwise
    cleanupEnabled,  \* the setting CACHE_CLEANUP_ENABLED is not 'false'
    cleanupInterval  \* the timer of startPeriodicCleanup is running

cacheVars == <<cacheAvailable, rows, now, setHistory, evictedSince, got,
               initializeEnd, cacheCall,
              cleanupEnabled, cleanupInterval>>

\* PRF engine (PRFEngine)
VARIABLES
    prfConfig,   \* PRFEngine.config
    prfStats,    \* PRFEngine.stats
    prfOutcome   \* the last expandQuery call: its arguments and what it gave

prfVars == <<prfConfig, prfStats, prfOutcome>>

\* retriever (Context.semanticSearch / semanticSearchWithPRF)
VARIABLES
    isHybrid,    \* getIsHybrid(): HYBRID_MODE
    prfEngine,   \* Context.prfEngine: its config and stats.totalQueries, or none
    reranker,    \* Context.reranker: "none", "created" or "ready" (initialized)
    collection,  \* whether the codebase's collection exists in the store
    search       \* the search call in flight or just finished

retrieverVars == <<isHybrid, prfEngine, reranker, collection, search>>

\* Query preprocessor (SimpleQueryPreprocessor)
VARIABLES
    preprocessorConfig,  \* SimpleQueryPreprocessor.config
    preprocessed,        \* the last preprocessQuery call: query and value
    selected             \* the last choice of search queries by semanticSearch

preprocessorVars == <<preprocessorConfig, preprocessed, selected>>

\* Synchronizers of the context (Context.synchronizers), for one collection
VARIABLES
    synchronizers,   \* synchronizers.get(collectionName): an instance or 0
    instances,       \* the FileSynchronizer instances constructed so far
    reindexCalls,    \* each reindexByChange call: its position and locals
    checkedWith      \* the instances on which checkForChanges was called

synchronizerVars == <<synchronizers, instances, reindexCalls, checkedWith>>

vars == <<indexerVars, chunkerVars, rerankerVars, cacheVars, prfVars,
          retrieverVars, preprocessorVars, synchronizerVars>>

\* what an action of one component leaves alone
IndexerOnly ==
    UNCHANGED <<chunkerVars, rerankerVars, cacheVars, prfVars, retrieverVars,
                preprocessorVars, synchronizerVars>>

ChunkerOnly ==
    UNCHANGED <<indexerVars, rerankerVars, cacheVars, prfVars, retrieverVars,
                preprocessorVars, synchronizerVars>>

RerankerOnly ==
    UNCHANGED <<indexerVars, chunkerVars, cacheVars, prfVars, retrieverVars,
                preprocessorVars, synchronizerVars>>

CacheOnly ==
    UNCHANGED <<indexerVars, chunkerVars, rerankerVars, prfVars, retrieverVars,
                preprocessorVars, synchronizerVars>>

PrfOnly ==
    UNCHANGED <<indexerVars, chunkerVars, rerankerVars, cacheVars,
                retrieverVars, preprocessorVars, synchronizerVars>>

RetrieverOnly ==
    UNCHANGED <<indexerVars, chunkerVars, rerankerVars, cacheVars, prfVars,
                preprocessorVars, synchronizerVars>>

PreprocessorOnly ==
    UNCHANGED <<indexerVars, chunkerVars, rerankerVars, cacheVars, prfVars,
                retrieverVars, synchronizerVars>>

SynchronizerOnly ==
    UNCHANGED <<indexerVars, chunkerVars, rerankerVars, cacheVars, prfVars,
                retrieverVars, preprocessorVars>>

(***************************************************************************)
(* INDEXER                                                                 *)
(***************************************************************************)
\* documents present before the job (ver 0) and written by it (ver 1)
OldDocs == {[path |-> p, ver |-> 0, n |-> 1] : p \in Paths}

NoResult == [status |-> "none"]

IdleJob == [pc |-> "idle", kind |-> "none", added |-> <<>>, removed |-> <<>>,
            modified |-> <<>>]

\* the outcomes of FileSynchronizer.checkForChanges: added, removed and
\* modified are pairwise disjoint lists of paths
ChangeSets ==
    {[added    |-> PathList({p \in Paths : k[p] = "added"}),
      removed  |-> PathList({p \in Paths : k[p] = "removed"}),
      modified |-> PathList({p \in Paths : k[p] = "modified"})] :
        k \in [Paths -> {"same", "added", "removed", "modified"}]}

\* the file lists getCodeFiles can return
FileLists == {PathList(S) : S \in SUBSET Paths}

\* the chunks codeSplitter.split returns for file p when it returns k of them
ChunksOf(p, k) == [n \in 1..k |-> [path |-> p, n |-> n]]

\* the VectorDocuments processChunkBatch builds from a batch
Documents(batch) == {[path |-> batch[i].path, ver |-> 1, n |-> batch[i].n] :
                        i \in 1..Len(batch)}

ResetFileList(files) ==
    /\ filePaths' = files
    /\ fileIndex' = 0
    /\ pendingChunks' = <<>>
    /\ chunkBuffer' = <<>>
    /\ processedFiles' = 0
    /\ totalChunks' = 0
    /\ limitReached' = FALSE

IndexerInit ==
    /\ store \in SUBSET OldDocs
    /\ job = IdleJob
    /\ delQueue = <<>>
    /\ filePaths = <<>>
    /\ fileIndex = 0
    /\ pendingChunks = <<>>
    /\ chunkBuffer = <<>>
    /\ processedFiles = 0
    /\ totalChunks = 0
    /\ limitReached = FALSE
    /\ jobResult = NoResult
    /\ deleteQueried = <<>>
    /\ deleteIssued = {}
    /\ inserted = {}
    /\ dropped = {}
    /\ handed = <<>>
    /\ processedChanges = 0
    /\ reports = <<>>

\* Math.round(num / den) for a fraction that is not negative
Round(num, den) == (2 * num + den) \div (2 * den)

\* one argument of progressCallback
Report(current, total, percentage) ==
    [current |-> current, total |-> total, percentage |-> percentage]

\* indexCodebase's onFileProcessed: Math.round(indexingStartPercentage +
\* (fileIndex / totalFiles) * indexingRange)
IndexingReport(index, totalFiles) ==
    Report(index, totalFiles, Round(10 * totalFiles + index * 90, totalFiles))

\* reindexByChange's updateProgress after processedChanges++
ChangesReport(processed, change) ==
    Report(processed,
           Len(change.added) + Len(change.removed) + Len(change.modified),
           Round(processed * 100,
                 Len(change.removed) + Len(change.modified)
                     + Len(change.added)))

\* the report that ends a job: "Indexing complete!" / "Re-indexing complete!"
CompleteReport ==
    IF job.kind = "index"
    THEN Report(processedFiles, Len(filePaths), 100)
    ELSE LET totalChanges ==
                 Len(job.added) + Len(job.removed) + Len(job.modified)
         IN Report(totalChanges, totalChanges, 100)

\* indexCodebase up to its call of processFileList: prepareCollection drops
\* the collection on a forced reindex, getCodeFiles lists the files
IndexCodebase(files, forceReindex) ==
    /\ IndexerOnly
    /\ job.pc = "idle"
    /\ store' = IF forceReindex THEN {} ELSE store
    /\ IF files = <<>>
       THEN /\ job' = [job EXCEPT !.pc = "done", !.kind = "index"]
            /\ jobResult' = [status |-> "completed", indexedFiles |-> 0,
                             totalChunks |-> 0]
            /\ UNCHANGED <<filePaths, fileIndex, pendingChunks, chunkBuffer,
                           processedFiles, totalChunks, limitReached>>
       ELSE /\ job' = [job EXCEPT !.pc = "nextFile", !.kind = "index"]
            /\ ResetFileList(files)
            /\ UNCHANGED jobResult
    /\ reports' = <<Report(0, 100, 0), Report(5, 100, 5)>>
                      \o (IF files = <<>> THEN <<Report(100, 100, 100)>>
                          ELSE <<>>)
    /\ UNCHANGED <<delQueue, deleteQueried, deleteIssued, inserted, dropped,
                   handed, processedChanges>>

\* mutant: the old chunks of modified files are not deleted
DeleteQueueRemovedOnly(removed, modified) == removed

\* the files whose chunks reindexByChange deletes, in the order it does so
DeleteQueue(removed, modified) == removed \o modified

\* the files reindexByChange hands to processFileList
FilesToIndex(added, modified) == added \o modified

\* reindexByChange up to its first deletion: checkForChanges, and the early
\* return when nothing changed
ReindexByChange(ch) ==
    /\ IndexerOnly
    /\ job.pc = "idle"
    /\ IF Len(ch.added) + Len(ch.removed) + Len(ch.modified) = 0
       THEN /\ job' = [pc |-> "done", kind |-> "reindex", added |-> <<>>,
                       removed |-> <<>>, modified |-> <<>>]
            /\ jobResult' = [status |-> "returned", added |-> 0,
                             removed |-> 0, modified |-> 0]
            /\ UNCHANGED delQueue
       ELSE /\ job' = [pc |-> "deleting", kind |-> "reindex",
                       added |-> ch.added, removed |-> ch.removed,
                       modified |-> ch.modified]
            /\ delQueue' = DeleteQueue(ch.removed, ch.modified)
            /\ UNCHANGED jobResult
    /\ reports' = <<Report(0, 100, 0)>>
                      \o (IF Len(ch.added) + Len(ch.removed)
                                + Len(ch.modified) = 0
                          THEN <<Report(100, 100, 100)>> ELSE <<>>)
    /\ UNCHANGED <<store, filePaths, fileIndex, pendingChunks, chunkBuffer,
                   processedFiles, totalChunks, limitReached, deleteQueried,
                   deleteIssued, inserted, dropped, handed, processedChanges>>

\* deleteFileChunks for the next file: query the ids by relativePath and
\* delete them when there are any; then updateProgress
DeleteFileChunks ==
    /\ IndexerOnly
    /\ job.pc = "deleting"
    /\ delQueue # <<>>
    /\ LET p == Head(delQueue)
           ids == {d \in store : d.path = p}
       IN /\ store' = store \ ids
          /\ deleteQueried' = Append(deleteQueried, p)
          /\ deleteIssued' = deleteIssued \cup ids
    /\ delQueue' = Tail(delQueue)
    /\ processedChanges' = processedChanges + 1
    /\ reports' = Append(reports, ChangesReport(processedChanges', job))
    /\ UNCHANGED <<job, filePaths, fileIndex, pendingChunks, chunkBuffer,
                   processedFiles, totalChunks, limitReached, jobResult,
                   inserted, dropped, handed>>

\* the store's query or delete throws: reindexByChange has no handler, the
\* caller gets the error
DeleteFileChunksFails ==
    /\ IndexerOnly
    /\ job.pc = "deleting"
    /\ delQueue # <<>>
    /\ job' = [job EXCEPT !.pc = "done"]
    /\ jobResult' = [status |-> "raised"]
    /\ UNCHANGED <<store, delQueue, filePaths, fileIndex, pendingChunks,
                   chunkBuffer, processedFiles, totalChunks, limitReached,
                   deleteQueried, deleteIssued, inserted, dropped, handed,
                   processedChanges, reports>>

\* reindexByChange after its deletions: processFileList on added and
\* modified, or the return when there is nothing to index
ReindexFiles ==
    /\ IndexerOnly
    /\ job.pc = "deleting"
    /\ delQueue = <<>>
    /\ LET files == FilesToIndex(job.added, job.modified)
       IN IF files = <<>>
          THEN /\ job' = [job EXCEPT !.pc = "done"]
               /\ jobResult' = [status |-> "returned",
                                added |-> Len(job.added),
                                removed |-> Len(job.removed),
                                modified |-> Len(job.modified)]
               /\ reports' = Append(reports, CompleteReport)
               /\ UNCHANGED <<filePaths, fileIndex, pendingChunks,
                              chunkBuffer, processedFiles, totalChunks,
                              limitReached>>
          ELSE /\ job' = [job EXCEPT !.pc = "nextFile"]
               /\ ResetFileList(files)
               /\ UNCHANGED <<jobResult, reports>>
    /\ UNCHANGED <<store, delQueue, deleteQueried, deleteIssued, inserted,
                   dropped, handed, processedChanges>>

\* processFileList: read and split the next file
ReadFile(k) ==
    /\ IndexerOnly
    /\ job.pc = "nextFile"
    /\ fileIndex < Len(filePaths)
    /\ pendingChunks' = ChunksOf(filePaths[fileIndex + 1], k)
    /\ job' = [job EXCEPT !.pc = "chunks"]
    /\ UNCHANGED <<store, delQueue, filePaths, fileIndex, chunkBuffer,
                   processedFiles, totalChunks, limitReached, jobResult,
                   deleteQueried, deleteIssued, inserted, dropped, handed,
                   processedChanges, reports>>

\* processFileList: readFile or split throws, the file is logged and skipped
SkipFile ==
    /\ IndexerOnly
    /\ job.pc = "nextFile"
    /\ fileIndex < Len(filePaths)
    /\ fileIndex' = fileIndex + 1
    /\ UNCHANGED <<store, job, delQueue, filePaths, pendingChunks,
                   chunkBuffer, processedFiles, totalChunks, limitReached,
                   jobResult, deleteQueried, deleteIssued, inserted, dropped,
                   handed, processedChanges, reports>>

\* the check of the chunk limit that ends an iteration of the chunk loop
LimitCheck(total) == total >= CHUNK_LIMIT

\* the end of an iteration of the chunk loop: on the limit, limitReached is
\* set and the loop is left
EndOfIteration(total) ==
    /\ limitReached' = (limitReached \/ LimitCheck(total))
    /\ job' = [job EXCEPT !.pc = IF LimitCheck(total)
                                 THEN "fileEnd" ELSE "chunks"]

\* processFileList: push one chunk; a full buffer is processed next
PushChunk ==
    /\ IndexerOnly
    /\ job.pc = "chunks"
    /\ pendingChunks # <<>>
    /\ chunkBuffer' = Append(chunkBuffer, Head(pendingChunks))
    /\ pendingChunks' = Tail(pendingChunks)
    /\ totalChunks' = totalChunks + 1
    /\ IF Len(chunkBuffer') >= EMBEDDING_BATCH_SIZE
       THEN /\ job' = [job EXCEPT !.pc = "flush"]
            /\ UNCHANGED limitReached
       ELSE EndOfIteration(totalChunks')
    /\ UNCHANGED <<store, delQueue, filePaths, fileIndex, processedFiles,
                   jobResult, deleteQueried, deleteIssued, inserted, dropped,
                   handed, processedChanges, reports>>

\* processChunkBuffer succeeds: the batch is embedded and inserted
ProcessChunkBuffer ==
    /\ IndexerOnly
    /\ job.pc = "flush"
    /\ handed' = Append(handed, chunkBuffer)
    /\ store' = store \cup Documents(chunkBuffer)
    /\ inserted' = inserted \cup Documents(chunkBuffer)
    /\ chunkBuffer' = <<>>
    /\ EndOfIteration(totalChunks)
    /\ UNCHANGED <<delQueue, filePaths, fileIndex, pendingChunks,
                   processedFiles, totalChunks, jobResult, deleteQueried,
                   deleteIssued, dropped, processedChanges, reports>>

\* mutant: the buffer survives a failed batch
BufferKeptAfterFailure(buffer) == buffer

\* the finally block after a batch: the buffer is cleared, even on failure
BufferAfterFailure(buffer) == <<>>

\* processChunkBuffer throws (the embedding provider or the store failed):
\* the catch logs, the finally clears the buffer
ProcessChunkBufferFails ==
    /\ IndexerOnly
    /\ job.pc = "flush"
    /\ handed' = Append(handed, chunkBuffer)
    /\ dropped' = dropped \cup Range(chunkBuffer)
    /\ chunkBuffer' = BufferAfterFailure(chunkBuffer)
    /\ EndOfIteration(totalChunks)
    /\ UNCHANGED <<store, delQueue, filePaths, fileIndex, pendingChunks,
                   processedFiles, totalChunks, jobResult, deleteQueried,
                   deleteIssued, inserted, processedChanges, reports>>

\* processFileList: the end of a file's chunk loop: the file is counted and
\* onFileProcessed called, then the file loop is left when the limit was
\* reached.  The callback runs inside the file's try block: when it throws,
\* the catch logs the file as skipped and the file loop goes on.  The
\* callback gives progressCallback its report, directly or by updateProgress.
FileProcessed(callbackThrows) ==
    /\ IndexerOnly
    /\ \/ job.pc = "fileEnd"
       \/ job.pc = "chunks" /\ pendingChunks = <<>>
    /\ processedFiles' = processedFiles + 1
    /\ IF limitReached /\ ~callbackThrows
       THEN /\ job' = [job EXCEPT !.pc = "finalFlush"]
            /\ UNCHANGED fileIndex
       ELSE /\ job' = [job EXCEPT !.pc = "nextFile"]
            /\ fileIndex' = fileIndex + 1
    /\ pendingChunks' = <<>>
    /\ IF job.kind = "index"
       THEN /\ reports' = Append(reports,
                                 IndexingReport(fileIndex + 1, Len(filePaths)))
            /\ UNCHANGED processedChanges
       ELSE /\ processedChanges' = processedChanges + 1
            /\ reports' = Append(reports,
                                 ChangesReport(processedChanges', job))
    /\ UNCHANGED <<store, delQueue, filePaths, chunkBuffer, totalChunks,
                   limitReached, jobResult, deleteQueried, deleteIssued,
                   inserted, dropped, handed>>

\* processFileList: the file loop is over
FilesDone ==
    /\ IndexerOnly
    /\ job.pc = "nextFile"
    /\ fileIndex >= Len(filePaths)
    /\ job' = [job EXCEPT !.pc = "finalFlush"]
    /\ UNCHANGED <<store, delQueue, filePaths, fileIndex, pendingChunks,
                   chunkBuffer, processedFiles, totalChunks, limitReached,
                   jobResult, deleteQueried, deleteIssued, inserted, dropped,
                   handed, processedChanges, reports>>

\* the value processFileList returns
FileListStatus == IF limitReached THEN "limit_reached" ELSE "completed"

\* what indexCodebase or reindexByChange returns after processFileList
JobReturn ==
    IF job.kind = "index"
    THEN [status |-> FileListStatus, indexedFiles |-> processedFiles,
          totalChunks |-> totalChunks]
    ELSE [status |-> "returned", added |-> Len(job.added),
          removed |-> Len(job.removed), modified |-> Len(job.modified)]

\* processFileList: the remaining chunks are processed, then the job returns
FinalBatch ==
    /\ IndexerOnly
    /\ job.pc = "finalFlush"
    /\ IF chunkBuffer # <<>>
       THEN /\ store' = store \cup Documents(chunkBuffer)
            /\ inserted' = inserted \cup Documents(chunkBuffer)
            /\ handed' = Append(handed, chunkBuffer)
       ELSE UNCHANGED <<store, inserted, handed>>
    /\ job' = [job EXCEPT !.pc = "done"]
    /\ jobResult' = JobReturn
    /\ reports' = Append(reports, CompleteReport)
    /\ UNCHANGED <<delQueue, filePaths, fileIndex, pendingChunks, chunkBuffer,
                   processedFiles, totalChunks, limitReached, deleteQueried,
                   deleteIssued, dropped, processedChanges>>

\* processFileList: processing the remaining chunks throws; the catch logs
FinalBatchFails ==
    /\ IndexerOnly
    /\ job.pc = "finalFlush"
    /\ chunkBuffer # <<>>
    /\ handed' = Append(handed, chunkBuffer)
    /\ dropped' = dropped \cup Range(chunkBuffer)
    /\ job' = [job EXCEPT !.pc = "done"]
    /\ jobResult' = JobReturn
    /\ reports' = Append(reports, CompleteReport)
    /\ UNCHANGED <<store, delQueue, filePaths, fileIndex, pendingChunks,
                   chunkBuffer, processedFiles, totalChunks, limitReached,
                   deleteQueried, deleteIssued, inserted, processedChanges>>

IndexerNext ==
    \/ \E files \in FileLists, force \in BOOLEAN : IndexCodebase(files, force)
    \/ \E ch \in ChangeSets : ReindexByChange(ch)
    \/ DeleteFileChunks
    \/ DeleteFileChunksFails
    \/ ReindexFiles
    \/ \E k \in 0..MaxChunksPerFile : ReadFile(k)
    \/ SkipFile
    \/ PushChunk
    \/ ProcessChunkBuffer
    \/ ProcessChunkBufferFails
    \/ \E callbackThrows \in BOOLEAN : FileProcessed(callbackThrows)
    \/ FilesDone
    \/ FinalBatch
    \/ FinalBatchFails

(***************************************************************************)
(* Claims about the indexer.                                               *)
(***************************************************************************)
\* C1: when the embedding or the insertion of a batch fails, the caller of
\* the indexing operation learns of it: a finished job whose batch failed
\* (its chunks were dropped) has raised or reports the failure in its result.
C1_BatchFailureSurfaced ==
    (job.pc = "done" /\ dropped # {}) =>
        jobResult.status \notin {"completed", "limit_reached", "returned"}

ChangedPaths == Range(job.removed) \cup Range(job.modified)

\* the job is past reindexByChange's deletions: it is inserting, or returned
PastDeletions ==
    \/ job.pc \in {"nextFile", "chunks", "flush", "fileEnd", "finalFlush"}
    \/ job.pc = "done" /\ jobResult.status = "returned"

\* C2: an incremental reindex calls the per-file delete for the paths of
\* removed and modified and no other, once each; whatever it deletes from
\* the store belongs to those paths; all of that is done, and no earlier
\* document of those paths is left, before the first chunk of added or
\* modified is inserted; and with an empty change set it neither deletes
\* nor inserts.
C2_DeleteThenInsert ==
    job.kind = "reindex" =>
        /\ Range(deleteQueried) \subseteq ChangedPaths
        /\ \A d \in deleteIssued : d.path \in ChangedPaths
        /\ \A d \in inserted :
              d.path \in Range(job.added) \cup Range(job.modified)
        /\ (PastDeletions \/ inserted # {}) =>
              /\ Range(deleteQueried) = ChangedPaths
              /\ Len(deleteQueried) = Cardinality(ChangedPaths)
              /\ \A d \in store : d.ver = 0 => d.path \notin ChangedPaths
        /\ (job.added = <<>> /\ job.removed = <<>> /\ job.modified = <<>>) =>
              /\ deleteQueried = <<>>
              /\ deleteIssued = {}
              /\ inserted = {}
              /\ job.pc = "done"

\* C2 witness: a reindex with removed and modified files has deleted
\* documents, inserted new ones and returned.
C2_Witness ==
    /\ job.kind = "reindex"
    /\ job.pc = "done"
    /\ jobResult.status = "returned"
    /\ job.removed # <<>>
    /\ job.modified # <<>>
    /\ deleteIssued # {}
    /\ inserted # {}

\* C12: an indexing invocation never counts more than CHUNK_LIMIT chunks;
\* it reports limit_reached exactly when the count reached CHUNK_LIMIT and
\* completed otherwise; once the limit is reached no further chunk is
\* counted or buffered and no further file is read; and the chunks left in
\* the buffer are handed to the final processChunkBuffer.
C12_ChunkLimitRespected ==
    /\ [](totalChunks <= CHUNK_LIMIT)
    /\ []((job.pc = "done" /\ job.kind = "index") =>
            jobResult.status = IF jobResult.totalChunks >= CHUNK_LIMIT
                               THEN "limit_reached" ELSE "completed")
    /\ [][limitReached =>
            /\ totalChunks' = totalChunks
            /\ chunkBuffer' \in {chunkBuffer, <<>>}
            /\ pendingChunks' \in {pendingChunks, <<>>}]_vars
    /\ [](job.pc = "done" =>
            \A c \in Range(chunkBuffer) :
                c \in dropped \/ \E d \in inserted : d.path = c.path /\ d.n = c.n)

RECURSIVE FlattenBatches(_)
\* the chunks of a sequence of batches, in the order they were handed over
FlattenBatches(batches) ==
    IF batches = <<>> THEN <<>>
    ELSE Head(batches) \o FlattenBatches(Tail(batches))

\* the position of a file in the list processFileList walks through
PathIndex(p) == CHOOSE i \in 1..Len(filePaths) : filePaths[i] = p

\* chunk c is emitted before chunk d: earlier file, or same file and
\* earlier chunk
EmittedBefore(c, d) ==
    \/ PathIndex(c.path) < PathIndex(d.path)
    \/ c.path = d.path /\ c.n < d.n

\* C19: within one job, the chunks handed to processChunkBuffer are, in
\* order and without repetition or gap, the chunks counted in totalChunks
\* (those still in the buffer excepted until the final batch); every batch
\* holds between one and EMBEDDING_BATCH_SIZE chunks; and every chunk handed
\* over was either inserted or belongs to a batch that failed.
C19_EveryChunkHandedOnce ==
    LET flat == FlattenBatches(handed)
        all == IF job.pc = "done" THEN flat ELSE flat \o chunkBuffer
    IN /\ Len(all) = totalChunks
       /\ \A i, j \in 1..Len(all) : i < j => EmittedBefore(all[i], all[j])
       /\ \A i \in 1..Len(all) :
             all[i].n > 1 =>
                \E j \in 1..(i - 1) : /\ all[j].path = all[i].path
                                      /\ all[j].n = all[i].n - 1
       /\ \A k \in 1..Len(handed) :
             Len(handed[k]) \in 1..EMBEDDING_BATCH_SIZE
       /\ \A i \in 1..Len(flat) :
             \/ flat[i] \in dropped
             \/ [path |-> flat[i].path, ver |-> 1, n |-> flat[i].n]
                   \in inserted

\* C19 witness: a finished job handed over two batches: a full one that
\* holds chunks of two files and failed, and a final one that is not full.
C19_Witness ==
    /\ job.pc = "done"
    /\ Len(handed) = 2
    /\ Range(handed[1]) \subseteq dropped
    /\ Len(handed[1]) = EMBEDDING_BATCH_SIZE
    /\ handed[1][1].path # handed[1][Len(handed[1])].path
    /\ Len(handed[2]) < EMBEDDING_BATCH_SIZE
    /\ totalChunks = Len(FlattenBatches(handed))
    /\ inserted # {}

\* C26: every report given to progressCallback by indexCodebase or
\* reindexByChange has 0 <= current <= total and 0 <= percentage <= 100, and
\* within one job no report has a lower percentage than an earlier one.
C26_ReportsInRangeAndRising ==
    \A i \in 1..Len(reports) :
        /\ 0 <= reports[i].current
        /\ reports[i].current <= reports[i].total
        /\ 0 <= reports[i].percentage
        /\ reports[i].percentage <= 100
        /\ \A j \in 1..(i - 1) :
              reports[j].percentage <= reports[i].percentage

(***************************************************************************)
(* CHUNKER: AstCodeSplitter.refineChunks and what it calls.  Text is a     *)
(* sequence of characters; the chunks extractChunks found are the input.   *)
(***************************************************************************)
\* longest chunk content, in characters
MaxContentLen == 4
\* largest configured chunkSize
MaxChunkSize == 4
\* largest configured chunkOverlap
MaxChunkOverlap == 1
\* largest start line of an extracted chunk
MaxStartLine == 2

Chars == {"x", " ", "\n"}

IsSpace(c) == c \in {" ", "\n"}

\* all texts of at most n characters
RECURSIVE TextsUpTo(_)
TextsUpTo(n) ==
    IF n = 0 THEN {<<>>}
    ELSE LET shorter == TextsUpTo(n - 1)
         IN shorter \cup {Append(t, c) : t \in {u \in shorter : Len(u) = n - 1},
                                          c \in Chars}

RECURSIVE TrimStart(_)
TrimStart(s) ==
    IF s # <<>> /\ IsSpace(Head(s)) THEN TrimStart(Tail(s)) ELSE s

RECURSIVE TrimEnd(_)
TrimEnd(s) ==
    IF s # <<>> /\ IsSpace(s[Len(s)]) THEN TrimEnd(SubSeq(s, 1, Len(s) - 1))
    ELSE s

\* String.prototype.trim
Trim(s) == TrimEnd(TrimStart(s))

\* s.split('\n'): the lines of s, one more than its line breaks
RECURSIVE SplitFrom(_, _, _)
SplitFrom(s, cur, acc) ==
    IF s = <<>> THEN Append(acc, cur)
    ELSE IF Head(s) = "\n" THEN SplitFrom(Tail(s), <<>>, Append(acc, cur))
    ELSE SplitFrom(Tail(s), Append(cur, Head(s)), acc)

SplitLines(s) == SplitFrom(s, <<>>, <<>>)

\* getLineCount
getLineCount(text) == Len(SplitLines(text))

\* s.slice(-k) for k > 0
SliceLast(s, k) == IF Len(s) <= k THEN s ELSE SubSeq(s, Len(s) - k + 1, Len(s))

NewChunk(content, startLine, endLine) ==
    [content |-> content, startLine |-> startLine, endLine |-> endLine]

\* mutant: the sub-chunk is closed only once it has outgrown the size
ClosesSubChunkLate(currentChunk, lineWithNewline, size) ==
    Len(currentChunk) > size /\ Len(currentChunk) > 0

\* splitLargeChunk's test for closing the current sub-chunk before a line
ClosesSubChunk(currentChunk, lineWithNewline, size) ==
    Len(currentChunk) + Len(lineWithNewline) > size /\ Len(currentChunk) > 0

\* a start line that skips the line the new sub-chunk begins with
StartLineAfter(chunk, i) == chunk.startLine + i

\* currentStartLine = chunk.metadata.startLine + i, for the i-th line
\* counted from 1
StartLineOf(chunk, i) == chunk.startLine + (i - 1)

\* the loop of splitLargeChunk from line i on; st holds its local variables
RECURSIVE SplitLoop(_, _, _, _, _)
SplitLoop(lines, i, st, chunk, size) ==
    IF i > Len(lines)
    THEN IF Len(Trim(st.currentChunk)) > 0
         THEN Append(st.subChunks,
                     NewChunk(Trim(st.currentChunk), st.currentStartLine,
                              st.currentStartLine + st.currentLineCount - 1))
         ELSE st.subChunks
    ELSE LET line == lines[i]
             lineWithNewline == IF i = Len(lines) THEN line
                                ELSE Append(line, "\n")
         IN IF ClosesSubChunk(st.currentChunk, lineWithNewline, size)
            THEN SplitLoop(lines, i + 1,
                     [subChunks |-> Append(st.subChunks,
                          NewChunk(Trim(st.currentChunk), st.currentStartLine,
                              st.currentStartLine + st.currentLineCount - 1)),
                      currentChunk |-> lineWithNewline,
                      currentStartLine |-> StartLineOf(chunk, i),
                      currentLineCount |-> 1],
                     chunk, size)
            ELSE SplitLoop(lines, i + 1,
                     [st EXCEPT !.currentChunk = st.currentChunk \o lineWithNewline,
                                !.currentLineCount = st.currentLineCount + 1],
                     chunk, size)

splitLargeChunk(chunk, size) ==
    SplitLoop(SplitLines(chunk.content), 1,
              [subChunks |-> <<>>, currentChunk |-> <<>>,
               currentStartLine |-> chunk.startLine, currentLineCount |-> 0],
              chunk, size)

\* refineChunks' loop: chunks within chunkSize pass, the others are split
RECURSIVE RefineLoop(_, _)
RefineLoop(chunks, size) ==
    IF chunks = <<>> THEN <<>>
    ELSE (IF Len(Head(chunks).content) <= size THEN <<Head(chunks)>>
          ELSE splitLargeChunk(Head(chunks), size))
         \o RefineLoop(Tail(chunks), size)

\* mutant: the key is the start line alone
RangeKeyStartOnly(chunk) == <<chunk.startLine>>

\* `${chunk.metadata.startLine}-${chunk.metadata.endLine}`
RangeKey(chunk) == <<chunk.startLine, chunk.endLine>>

RECURSIVE DedupFrom(_, _, _)
DedupFrom(chunks, seenRanges, acc) ==
    IF chunks = <<>> THEN acc
    ELSE LET c == Head(chunks)
             rangeKey == RangeKey(c)
         IN IF rangeKey \in seenRanges
            THEN DedupFrom(Tail(chunks), seenRanges, acc)
            ELSE DedupFrom(Tail(chunks), seenRanges \cup {rangeKey},
                           Append(acc, c))

deduplicateChunks(chunks) == DedupFrom(chunks, {}, <<>>)

addOverlap(chunks, overlap) ==
    IF Len(chunks) <= 1 \/ overlap <= 0 THEN chunks
    ELSE [i \in 1..Len(chunks) |->
            IF i > 1
            THEN LET overlapText == SliceLast(chunks[i - 1].content, overlap)
                 IN NewChunk(overlapText \o <<"\n">> \o chunks[i].content,
                             Max(1, chunks[i].startLine - getLineCount(overlapText)),
                             chunks[i].endLine)
            ELSE chunks[i]]

refineChunks(chunks, size, overlap) ==
    addOverlap(deduplicateChunks(RefineLoop(chunks, size)), overlap)

NewLines(s) == Len(SplitLines(s)) - 1

(***************************************************************************)
(* The syntax tree and extractChunks.  Every line of the file holds one    *)
(* token "x"; a node covers whole lines.                                   *)
(***************************************************************************)
\* most children of the root node
MaxChildren == 3

Languages == {"typescript", "java"}

\* SPLITTABLE_NODE_TYPES
SplittableTypes(lang) ==
    IF lang = "typescript"
    THEN {"import_statement", "function_declaration", "class_declaration",
          "method_definition", "export_statement", "interface_declaration",
          "type_alias_declaration", "variable_declaration",
          "lexical_declaration", "arrow_function", "export_declaration"}
    ELSE {"method_declaration", "class_declaration", "interface_declaration",
          "constructor_declaration", "import_declaration",
          "package_declaration", "field_declaration",
          "local_variable_declaration"}

\* the kinds of top-level node the trees of a language are built from
TopLevelKinds(lang) ==
    IF lang = "typescript"
    THEN {"import_statement", "comment", "expression_statement",
          "function_declaration", "export_statement", "class_declaration"}
    ELSE {"package_declaration", "import_declaration", "line_comment"}

\* the node kinds with which the two grammars mark an import and a comment
GrammarImportKinds == {"import_statement", "import_declaration"}

GrammarCommentKinds == {"comment", "line_comment"}

SyntaxNode(type, startRow, endRow, children) ==
    [type |-> type, startRow |-> startRow, endRow |-> endRow,
     children |-> children]

\* the lines a top-level node of a kind covers
Height(kind) ==
    CASE kind = "function_declaration" -> 2
      [] kind = "class_declaration" -> 3
      [] OTHER -> 1

\* the node of a kind that starts at a row: a function holds a declaration
\* on its first line, an export statement wraps a function of the same
\* range, a class holds a method on its second line
NodeAt(kind, row) ==
    SyntaxNode(kind, row, row + Height(kind) - 1,
        CASE kind = "function_declaration" ->
                 <<SyntaxNode("lexical_declaration", row, row, <<>>)>>
          [] kind = "export_statement" ->
                 <<SyntaxNode("function_declaration", row, row, <<>>)>>
          [] kind = "class_declaration" ->
                 <<SyntaxNode("method_definition", row + 1, row + 1, <<>>)>>
          [] OTHER -> <<>>)

RECURSIVE NodesFrom(_, _)
\* the children of the root for a sequence of kinds, one below the other
NodesFrom(kinds, row) ==
    IF kinds = <<>> THEN <<>>
    ELSE <<NodeAt(Head(kinds), row)>>
         \o NodesFrom(Tail(kinds), row + Height(Head(kinds)))

\* the trees the parser returns
Trees(lang) ==
    {NodesFrom(kinds, 1) :
        kinds \in UNION {[1..n -> TopLevelKinds(lang)] : n \in 0..MaxChildren}}

RECURSIVE RowsText(_)
\* the text of n lines
RowsText(n) ==
    IF n <= 0 THEN <<>>
    ELSE IF n = 1 THEN <<"x">> ELSE <<"x", "\n">> \o RowsText(n - 1)

\* code.slice(first.startIndex, last.endIndex), by rows
CodeSlice(startRow, endRow) == RowsText(endRow - startRow + 1)

\* the number of lines of the file
CodeRows(children) ==
    IF children = <<>> THEN 0 ELSE children[Len(children)].endRow

\* isWhitespaceNode
isWhitespaceNode(node) ==
    \/ node.type \in {"\n", "whitespace"}
    \/ Trim(CodeSlice(node.startRow, node.endRow)) = <<>>

RECURSIVE LeadingImports(_, _)
\* the loop of groupConsecutiveImports: the imports before the first child
\* that is neither an import, a comment nor whitespace
LeadingImports(children, imports) ==
    IF children = <<>> THEN imports
    ELSE LET child == Head(children)
         IN IF child.type = "import_statement"
            THEN LeadingImports(Tail(children), Append(imports, child))
            ELSE IF child.type = "comment" \/ isWhitespaceNode(child)
            THEN LeadingImports(Tail(children), imports)
            ELSE imports

NoChunk == [content |-> <<>>, startLine |-> 0, endLine |-> 0]

NoGroup == [chunk |-> NoChunk, processedNodes |-> {}]

\* groupConsecutiveImports' test for returning no group
TooFewImports(imports) == Len(imports) <= 1

groupConsecutiveImports(children) ==
    LET imports == LeadingImports(children, <<>>)
    IN IF TooFewImports(imports)
       THEN NoGroup
       ELSE LET firstImport == imports[1]
                lastImport == imports[Len(imports)]
            IN [chunk |-> NewChunk(CodeSlice(firstImport.startRow,
                                             lastImport.endRow),
                                   firstImport.startRow, lastImport.endRow),
                processedNodes |-> Range(imports)]

RECURSIVE traverse(_, _, _)
RECURSIVE TraverseChildren(_, _, _)
\* extractChunks' traverse: a processed node is skipped with its subtree, a
\* splittable node with text makes a chunk, then the children are visited
traverse(currentNode, splittableTypes, processedNodes) ==
    IF currentNode \in processedNodes THEN <<>>
    ELSE LET nodeText == CodeSlice(currentNode.startRow, currentNode.endRow)
         IN (IF /\ currentNode.type \in splittableTypes
                /\ Len(Trim(nodeText)) > 0
             THEN <<NewChunk(nodeText, currentNode.startRow,
                             currentNode.endRow)>>
             ELSE <<>>)
            \o TraverseChildren(currentNode.children, splittableTypes,
                                processedNodes)

TraverseChildren(children, splittableTypes, processedNodes) ==
    IF children = <<>> THEN <<>>
    ELSE traverse(Head(children), splittableTypes, processedNodes)
         \o TraverseChildren(Tail(children), splittableTypes, processedNodes)

\* mutant: the import chunk is pushed after the traversal
ImportChunkLast(group, traversed) ==
    IF group.chunk # NoChunk THEN Append(traversed, group.chunk)
    ELSE traversed

\* the import chunk is pushed before the traversal starts
ImportChunkFirst(group, traversed) ==
    IF group.chunk # NoChunk THEN <<group.chunk>> \o traversed
    ELSE traversed

\* extractChunks, given the value of groupConsecutiveImports
extractChunks(children, lang, group) ==
    LET chunks ==
            ImportChunkFirst(group,
                TraverseChildren(children, SplittableTypes(lang),
                                 group.processedNodes))
    IN IF chunks = <<>>
       THEN <<NewChunk(RowsText(CodeRows(children)), 1,
                       Max(1, CodeRows(children)))>>
       ELSE chunks

\* split up to refineChunks: the tree is parsed, the chunks extracted
SplitterInit ==
    /\ chunkSize \in 1..MaxChunkSize
    /\ chunkOverlap \in 0..MaxChunkOverlap
    /\ language \in Languages
    /\ rootChildren \in Trees(language)
    /\ importGroup = NoGroup
    /\ extracted = <<>>
    /\ deduplicated = <<>>
    /\ refined = <<>>
    /\ splitterPc = "parsed"

ExtractChunks ==
    /\ ChunkerOnly
    /\ splitterPc = "parsed"
    /\ importGroup' = groupConsecutiveImports(rootChildren)
    /\ extracted' = extractChunks(rootChildren, language, importGroup')
    /\ splitterPc' = "extracted"
    /\ UNCHANGED <<chunkSize, chunkOverlap, refined, language, rootChildren,
                   deduplicated>>

\* the chunk extractChunks makes of a whole file without splittable nodes
WholeFileChunks == {NewChunk(t, 1, NewLines(t) + 1) : t \in TextsUpTo(MaxContentLen)}

\* the chunk extractChunks makes of a syntax node: the node's text, which
\* starts and ends with a token, and the node's rows
NodeChunks ==
    {NewChunk(t, l, l + NewLines(t)) :
        t \in {u \in TextsUpTo(MaxContentLen) : u # <<>> /\ Trim(u) = u},
        l \in 1..MaxStartLine}

ChunkerInit ==
    /\ chunkSize \in 1..MaxChunkSize
    /\ chunkOverlap \in 0..MaxChunkOverlap
    /\ \/ \E c \in WholeFileChunks : extracted = <<c>>
       \/ \E c \in NodeChunks : extracted = <<c>>
       \/ \E c \in NodeChunks, d \in NodeChunks : extracted = <<c, d>>
    /\ refined = <<>>
    /\ splitterPc = "extracted"
    /\ language = "none"
    /\ rootChildren = <<>>
    /\ importGroup = NoGroup
    /\ deduplicated = <<>>

RefineChunks ==
    /\ ChunkerOnly
    /\ splitterPc = "extracted"
    /\ deduplicated' = deduplicateChunks(RefineLoop(extracted, chunkSize))
    /\ refined' = refineChunks(extracted, chunkSize, chunkOverlap)
    /\ splitterPc' = "refined"
    /\ UNCHANGED <<chunkSize, chunkOverlap, extracted, language,
                   rootChildren, importGroup>>

ChunkerNext == RefineChunks

SplitterNext == ExtractChunks \/ RefineChunks

(***************************************************************************)
(* Claims about the chunker.                                               *)
(***************************************************************************)
\* each sub-chunk has startLine <= endLine, the first starts where the parent
\* starts and each following one starts on the line after the previous one
AdjacentFrom(subChunks, parent) ==
    /\ \A k \in 1..Len(subChunks) :
          subChunks[k].startLine <= subChunks[k].endLine
    /\ subChunks # <<>> => subChunks[1].startLine = parent.startLine
    /\ \A k \in 1..(Len(subChunks) - 1) :
          subChunks[k + 1].startLine = subChunks[k].endLine + 1

\* the last line of the parent that the sub-chunks cover
CoveredTo(subChunks, parent) ==
    IF subChunks = <<>> THEN parent.startLine - 1
    ELSE subChunks[Len(subChunks)].endLine

\* the extracted chunks that refineChunks splits
SplitParents ==
    {j \in 1..Len(extracted) : Len(extracted[j].content) > chunkSize}

\* C28 as stated: the sub-chunks of a split chunk tile the parent's line
\* range: the first starts at the parent's startLine, each following one
\* starts at the previous endLine + 1, the last ends at the parent's
\* endLine, and every sub-chunk has startLine <= endLine.
C28_SubChunksTileParent ==
    splitterPc = "refined" =>
        \A j \in SplitParents :
            LET parent == extracted[j]
                subChunks == splitLargeChunk(parent, chunkSize)
            IN /\ subChunks # <<>>
               /\ AdjacentFrom(subChunks, parent)
               /\ CoveredTo(subChunks, parent) = parent.endLine

\* C28 amended: the sub-chunks tile the parent's line range up to a line at
\* or before the parent's endLine, and the lines of the parent after that
\* line hold nothing but whitespace.
C28_SubChunksTileUpToBlankTail ==
    splitterPc = "refined" =>
        \A j \in SplitParents :
            LET parent == extracted[j]
                subChunks == splitLargeChunk(parent, chunkSize)
                covered == CoveredTo(subChunks, parent)
            IN /\ AdjacentFrom(subChunks, parent)
               /\ covered <= parent.endLine
               /\ \A l \in (covered + 1)..parent.endLine :
                     Trim(SplitLines(parent.content)[l - parent.startLine + 1])
                        = <<>>

\* C28 witness: a chunk that starts after line 1 was split into more than
\* one sub-chunk, and these are the refined chunks.
C28_Witness ==
    /\ splitterPc = "refined"
    /\ chunkOverlap = 0
    /\ Len(extracted) = 1
    /\ extracted[1].startLine > 1
    /\ 1 \in SplitParents
    /\ Len(splitLargeChunk(extracted[1], chunkSize)) >= 2
    /\ refined = splitLargeChunk(extracted[1], chunkSize)
    /\ refined[Len(refined)].endLine = extracted[1].endLine

\* C3 as stated: after refinement every chunk has non-empty content of at
\* most chunkSize characters.
C3_EveryChunkWithinSize ==
    splitterPc = "refined" =>
        \A i \in 1..Len(refined) :
            0 < Len(refined[i].content) /\ Len(refined[i].content) <= chunkSize

\* the lines first..last of the file are lines of extracted chunk p, p was
\* too long to pass unsplit, and they hold nothing but whitespace
WhitespaceLinesOf(p, first, last) ==
    /\ Len(p.content) > chunkSize
    /\ p.startLine <= first
    /\ last <= p.endLine
    /\ \A l \in first..last :
          Trim(SplitLines(p.content)[l - p.startLine + 1]) = <<>>

\* C3 amended: with chunk overlap off, a refined chunk is longer than
\* chunkSize only when it is one single line (force-included), and it is
\* empty only when the extracted chunk was empty (an empty file) or when it
\* is a sub-chunk covering whitespace-only lines of a split chunk.
C3_WithinSizeOrSingleLine ==
    (splitterPc = "refined" /\ chunkOverlap = 0) =>
        \A i \in 1..Len(refined) :
            LET c == refined[i]
            IN /\ \/ Len(c.content) <= chunkSize
                  \/ c.startLine = c.endLine /\ "\n" \notin Range(c.content)
               /\ Len(c.content) = 0 =>
                     \E j \in 1..Len(extracted) :
                        \/ extracted[j].content = <<>>
                        \/ WhitespaceLinesOf(extracted[j], c.startLine, c.endLine)

\* C3 witness: a chunk longer than chunkSize was split into a sub-chunk
\* within chunkSize and a force-included line that exceeds it.
C3_Witness ==
    /\ splitterPc = "refined"
    /\ chunkOverlap = 0
    /\ Len(extracted) = 1
    /\ Len(extracted[1].content) > chunkSize
    /\ Len(refined) >= 2
    /\ \E i \in 1..Len(refined) : Len(refined[i].content) > chunkSize
    /\ \E i \in 1..Len(refined) :
          0 < Len(refined[i].content) /\ Len(refined[i].content) <= chunkSize

\* two chunks cover the same lines
SameLines(c, d) == c.startLine = d.startLine /\ c.endLine = d.endLine

\* C13: the list deduplicateChunks returns holds no two chunks with the same
\* (startLine, endLine) pair, and it is the list it was given with every
\* chunk removed whose pair occurred earlier: the first chunk of each pair
\* is kept and the kept chunks stay in their order.
C13_DedupKeepsFirst ==
    splitterPc = "refined" =>
        LET given == RefineLoop(extracted, chunkSize)
            firsts == SelectSeq([i \in 1..Len(given) |-> i],
                                LAMBDA i : \A j \in 1..(i - 1) :
                                              ~SameLines(given[j], given[i]))
        IN /\ \A i, j \in 1..Len(deduplicated) :
                 i # j => ~SameLines(deduplicated[i], deduplicated[j])
           /\ deduplicated = [k \in 1..Len(firsts) |-> given[firsts[k]]]

\* C13 witness: a chunk was removed whose lines an earlier chunk covers,
\* chunks later in the list were kept, and two kept chunks start on the
\* same line and end on different ones.
C13_Witness ==
    /\ splitterPc = "refined"
    /\ LET given == RefineLoop(extracted, chunkSize)
       IN \E i, j, k \in 1..Len(given) :
             /\ i < j /\ j < k
             /\ SameLines(given[i], given[j])
             /\ \A m \in 1..(k - 1) : ~SameLines(given[m], given[k])
    /\ \E i, j \in 1..Len(deduplicated) :
          /\ deduplicated[i].startLine = deduplicated[j].startLine
          /\ deduplicated[i].endLine # deduplicated[j].endLine

\* the imports of the run the root's children begin with: the import nodes
\* before the first child that is neither an import nor a comment
LeadingRun ==
    LET stops == {i \in 1..Len(rootChildren) :
                     rootChildren[i].type
                         \notin GrammarImportKinds \cup GrammarCommentKinds}
        before == IF stops = {} THEN rootChildren
                  ELSE SubSeq(rootChildren, 1,
                              (CHOOSE i \in stops :
                                  \A j \in stops : i <= j) - 1)
    IN SelectSeq(before, LAMBDA n : n.type \in GrammarImportKinds)

\* C14: when the root's children begin with a run of two or more import
\* nodes (comments between them skipped, the run ending at the first child
\* that is neither), extractChunks emits exactly one chunk from the first
\* import's start line to the last import's end line and no chunk for a
\* single import of the run; with fewer than two leading imports
\* groupConsecutiveImports returns no chunk.
C14_LeadingImportsGrouped ==
    splitterPc \in {"extracted", "refined"} =>
        IF Len(LeadingRun) >= 2
        THEN LET first == LeadingRun[1]
                 last == LeadingRun[Len(LeadingRun)]
             IN /\ Cardinality({i \in 1..Len(extracted) :
                                   /\ extracted[i].startLine = first.startRow
                                   /\ extracted[i].endLine = last.endRow}) = 1
                /\ \A k \in 1..Len(LeadingRun) :
                      \A i \in 1..Len(extracted) :
                         ~ /\ extracted[i].startLine = LeadingRun[k].startRow
                           /\ extracted[i].endLine = LeadingRun[k].endRow
        ELSE importGroup = NoGroup

\* start lines never decrease along a list of chunks
StartLinesMonotone(chunks) ==
    \A i \in 1..(Len(chunks) - 1) :
        chunks[i].startLine <= chunks[i + 1].startLine

\* C15 as stated: in the list of chunks returned for a file, startLine
\* never decreases from one chunk to the next.
C15_ReturnedStartLinesMonotone ==
    splitterPc = "refined" => StartLinesMonotone(refined)

\* C15 amended: in the list extractChunks builds from the syntax tree (the
\* import group, then the splittable nodes in traversal order), startLine
\* never decreases from one chunk to the next.
C15_ExtractedStartLinesMonotone ==
    splitterPc \in {"extracted", "refined"} => StartLinesMonotone(extracted)

\* C15 witness: the extracted list holds an import group, a node and a node
\* nested in it, and the returned list has a start line that decreases.
C15_Witness ==
    /\ splitterPc = "refined"
    /\ importGroup # NoGroup
    /\ Len(extracted) >= 3
    /\ extracted[1] = importGroup.chunk
    /\ \E i \in 2..(Len(extracted) - 1) :
          /\ extracted[i].startLine < extracted[i + 1].startLine
          /\ extracted[i + 1].endLine <= extracted[i].endLine
    /\ ~StartLinesMonotone(refined)

(***************************************************************************)
(* RERANKER: BaseReranker.initialize and HuggingFaceReranker.doInitialize  *)
(***************************************************************************)
\* the number of concurrent callers of initialize()
NumCallers == 3
\* the number of times each of them calls it
MaxCalls == 2

Callers == 1..NumCallers

\* no more doInitialize calls can start than there are calls of initialize()
PromiseIds == 1..(NumCallers * MaxCalls)

\* a caller that has not called initialize() yet; awaited lists, call by
\* call, the promise the call waited on (0: the call returned at once)
NewCaller == [pc |-> "idle", awaited |-> <<>>]

\* mutant: initialize() calls doInitialize whether or not one is pending
StartsInitAlways(promise) == TRUE

\* initialize(): `if (!this.initializationPromise)`
StartsInit(promise) == promise = 0

RerankerInit ==
    /\ rerankerEnabled \in BOOLEAN
    /\ initialized = FALSE
    /\ initializationPromise = 0
    /\ promises = <<>>
    /\ callers = [c \in Callers |-> NewCaller]

\* caller c calls initialize(): the synchronous part of the call, which runs
\* doInitialize up to its first await when it starts one
Initialize(c) ==
    /\ RerankerOnly
    /\ callers[c].pc # "waiting"
    /\ Len(callers[c].awaited) < MaxCalls
    /\ IF ~rerankerEnabled \/ initialized
       THEN /\ callers' = [callers EXCEPT ![c].pc = "returned",
                                          ![c].awaited = Append(@, 0)]
            /\ UNCHANGED <<initializationPromise, promises>>
       ELSE /\ IF StartsInit(initializationPromise)
               THEN /\ promises' = Append(promises, "import")
                    /\ initializationPromise' = Len(promises) + 1
               ELSE UNCHANGED <<initializationPromise, promises>>
            /\ callers' = [callers EXCEPT
                              ![c].pc = "waiting",
                              ![c].awaited = Append(@, initializationPromise')]
    /\ UNCHANGED <<rerankerEnabled, initialized>>

\* doInitialize number p gets past one of its awaits: the import of the
\* transformers package, then the tokenizer, then the model, after which it
\* sets initialized and its promise is fulfilled
LoadStep(p) ==
    /\ RerankerOnly
    /\ p <= Len(promises)
    /\ promises[p] \in {"import", "tokenizer", "model"}
    /\ promises' = [promises EXCEPT ![p] =
                       CASE @ = "import"    -> "tokenizer"
                         [] @ = "tokenizer" -> "model"
                         [] @ = "model"     -> "fulfilled"]
    /\ initialized' = IF promises[p] = "model" THEN TRUE ELSE initialized
    /\ UNCHANGED <<rerankerEnabled, initializationPromise, callers>>

\* one of the awaits of doInitialize number p throws: the catch clears
\* initialized and rethrows, the promise is rejected
LoadFails(p) ==
    /\ RerankerOnly
    /\ p <= Len(promises)
    /\ promises[p] \in {"import", "tokenizer", "model"}
    /\ promises' = [promises EXCEPT ![p] = "rejected"]
    /\ initialized' = FALSE
    /\ UNCHANGED <<rerankerEnabled, initializationPromise, callers>>

\* the promise caller c waits on is settled: its call returns or raises
Settle(c) ==
    /\ RerankerOnly
    /\ callers[c].pc = "waiting"
    /\ LET p == callers[c].awaited[Len(callers[c].awaited)]
       IN /\ promises[p] \in {"fulfilled", "rejected"}
          /\ callers' = [callers EXCEPT ![c].pc =
                            IF promises[p] = "fulfilled" THEN "returned"
                                                         ELSE "raised"]
    /\ UNCHANGED <<rerankerEnabled, initialized, initializationPromise,
                   promises>>

RerankerNext ==
    \/ \E c \in Callers : Initialize(c)
    \/ \E p \in PromiseIds : LoadStep(p)
    \/ \E p \in PromiseIds : LoadFails(p)
    \/ \E c \in Callers : Settle(c)

(***************************************************************************)
(* Claims about the reranker.                                              *)
(***************************************************************************)
\* C9: however the calls of initialize() interleave, doInitialize is started
\* at most once, every call that has to wait waits on the promise of that
\* one initialization, and a call made once initialized is set returns at
\* once and changes nothing.
C9_InitializeOnce ==
    /\ [](/\ Len(promises) <= 1
          /\ \A c \in Callers : \A i \in 1..Len(callers[c].awaited) :
                callers[c].awaited[i] \in {0, initializationPromise}
          /\ \A c \in Callers :
                callers[c].pc = "waiting" =>
                    callers[c].awaited[Len(callers[c].awaited)] = 1)
    /\ [][\A c \in Callers :
            (initialized /\ Initialize(c)) =>
                /\ callers'[c].pc = "returned"
                /\ UNCHANGED <<initialized, initializationPromise, promises>>]_vars

\* C9 witness: two callers waited on the same initialization, it succeeded,
\* and one of them called initialize() again and returned at once.
C9_Witness ==
    /\ initialized
    /\ Len(promises) = 1
    /\ \E c1, c2 \in Callers :
          /\ c1 # c2
          /\ callers[c1].awaited = <<1>>
          /\ callers[c2].awaited = <<1, 0>>
          /\ callers[c1].pc = "returned"
          /\ callers[c2].pc = "returned"

(***************************************************************************)
(* EMBEDDING CACHE                                                         *)
(***************************************************************************)
\* the last instant of the clock
MaxClock == 1
\* the number of set / setMany calls recorded per hash
MaxSets == 2

Hashes == {"h1", "h2"}

\* the number[] arguments of set: 1 and 3 are not float32 values
Embeddings == {<<1>>, <<2, 3>>}

\* the maxAgeMs arguments of cleanup
MaxAges == 0..MaxClock

NoRow == [dimension |-> 0]

NoGet == [hash |-> "none"]

Null == <<"null">>

NoCall == [op |-> "none"]

\* new Float32Array(embedding): a number is stored as the nearest float32,
\* here the even number below it; the buffer holds its code
ToFloat32(x) == x \div 2

\* Array.from(float32Array): the number a stored code stands for
FromFloat32(code) == code * 2

\* Buffer.from(new Float32Array(embedding).buffer)
EncodeBuffer(embedding) == [i \in 1..Len(embedding) |-> ToFloat32(embedding[i])]

\* Array.from(new Float32Array(row.embedding.buffer, ...))
DecodeBuffer(buffer) == [i \in 1..Len(buffer) |-> FromFloat32(buffer[i])]

\* the row set and setMany write
Row(embedding, createdAt) ==
    [embedding |-> EncodeBuffer(embedding), dimension |-> Len(embedding),
     created_at |-> createdAt]

\* mutant: INSERT OR IGNORE, an existing row is kept
InsertOrIgnore(table, h, row) ==
    IF table[h] = NoRow THEN [table EXCEPT ![h] = row] ELSE table

\* INSERT OR REPLACE INTO embeddings
InsertOrReplace(table, h, row) == [table EXCEPT ![h] = row]

StoredHashes(table) == {h \in Hashes : table[h] # NoRow}

\* DELETE FROM embeddings WHERE created_at < cutoffTime
OlderThan(table, cutoffTime) ==
    {h \in StoredHashes(table) : table[h].created_at < cutoffTime}

\* Math.ceil(totalEntries * 0.1)
TargetRemoval(totalEntries) == (totalEntries + 9) \div 10

\* the sets of rows `ORDER BY created_at ASC LIMIT n` can select: n rows,
\* none of them newer than a row left out
OldestRows(table, n) ==
    {S \in SUBSET StoredHashes(table) :
        /\ Cardinality(S) = Min(n, Cardinality(StoredHashes(table)))
        /\ \A h \in S : \A g \in StoredHashes(table) \ S :
              table[h].created_at <= table[g].created_at}

DeleteRows(table, S) == [h \in Hashes |-> IF h \in S THEN NoRow ELSE table[h]]

DEFAULT_CLEANUP_ENABLED == TRUE

\* a cache object before initialize()
NewCache ==
    /\ cacheAvailable = FALSE
    /\ rows = [h \in Hashes |-> NoRow]
    /\ now = 0
    /\ setHistory = [h \in Hashes |-> <<>>]
    /\ evictedSince = [h \in Hashes |-> FALSE]
    /\ got = NoGet
    /\ initializeEnd = "none"
    /\ cacheCall = NoCall
    /\ cleanupInterval = FALSE

\* the cache under the default setting of CACHE_CLEANUP_ENABLED
CacheInit ==
    /\ NewCache
    /\ cleanupEnabled = DEFAULT_CLEANUP_ENABLED

\* the cache under either setting of CACHE_CLEANUP_ENABLED
CleanupInit ==
    /\ NewCache
    /\ cleanupEnabled \in BOOLEAN

Evict(S) ==
    /\ rows' = DeleteRows(rows, S)
    /\ evictedSince' = [h \in Hashes |-> evictedSince[h] \/ h \in S]

\* the rows smartCleanup deletes: cleanup(maxAgeMs), then cleanupBySize,
\* which deletes the oldest tenth when the database file is over its limit
SmartCleanupRows(table, maxAge, overSize) ==
    LET old == OlderThan(table, now - maxAge)
        rest == DeleteRows(table, old)
    IN IF overSize
       THEN {old \cup S :
                S \in OldestRows(rest,
                                 TargetRemoval(Cardinality(StoredHashes(rest))))}
       ELSE {old}

\* the catch block of initialize(): the failure is logged, db = null, and
\* the call returns
InitializeCatch == "failed"

\* startPeriodicCleanup(): the timer is set unless cleanup is disabled
startPeriodicCleanup == cleanupEnabled

\* initialize(): open the database, startPeriodicCleanup, then smartCleanup;
\* a failure to open leaves the cache unavailable
CacheInitialize(ok, maxAge, overSize) ==
    /\ CacheOnly
    /\ ~cacheAvailable
    /\ cacheAvailable' = ok
    /\ initializeEnd' = IF ok THEN "opened" ELSE InitializeCatch
    /\ IF ok
       THEN /\ cleanupInterval' = startPeriodicCleanup
            /\ \E S \in SmartCleanupRows(rows, maxAge, overSize) : Evict(S)
       ELSE UNCHANGED <<rows, evictedSince, cleanupInterval>>
    /\ got' = NoGet
    /\ UNCHANGED cleanupEnabled
    /\ cacheCall' = NoCall
    /\ UNCHANGED <<now, setHistory>>

\* get(contentHash)
CacheGet(h) ==
    /\ CacheOnly
    /\ got' = [hash |-> h,
               value |-> IF ~cacheAvailable \/ rows[h] = NoRow
                         THEN Null
                         ELSE DecodeBuffer(rows[h].embedding)]
    /\ UNCHANGED <<cleanupEnabled, cleanupInterval>>
    /\ cacheCall' = NoCall
    /\ UNCHANGED <<cacheAvailable, rows, now, setHistory, evictedSince,
                   initializeEnd>>

\* set(contentHash, embedding)
CacheSet(h, embedding) ==
    /\ CacheOnly
    /\ Len(setHistory[h]) < MaxSets
    /\ IF cacheAvailable
       THEN /\ rows' = InsertOrReplace(rows, h, Row(embedding, now))
            /\ setHistory' = [setHistory EXCEPT ![h] = Append(@, embedding)]
            /\ evictedSince' = [evictedSince EXCEPT ![h] = FALSE]
       ELSE UNCHANGED <<rows, setHistory, evictedSince>>
    /\ got' = NoGet
    /\ UNCHANGED <<cleanupEnabled, cleanupInterval>>
    /\ cacheCall' = NoCall
    /\ UNCHANGED initializeEnd
    /\ UNCHANGED <<cacheAvailable, now>>

RECURSIVE InsertAll(_, _, _)
\* the loop of setMany's transaction over the entries of the map
InsertAll(table, entries, todo) ==
    IF todo = {}
    THEN table
    ELSE LET h == CHOOSE x \in todo : TRUE
         IN InsertAll(InsertOrReplace(table, h, Row(entries[h], now)),
                      entries, todo \ {h})

\* setMany(embeddings): one transaction, one timestamp
setMany(entries) ==
    IF cacheAvailable /\ DOMAIN entries # {}
    THEN /\ rows' = InsertAll(rows, entries, DOMAIN entries)
         /\ setHistory' = [h \in Hashes |->
                              IF h \in DOMAIN entries
                              THEN Append(setHistory[h], entries[h])
                              ELSE setHistory[h]]
         /\ evictedSince' = [h \in Hashes |->
                                evictedSince[h] /\ h \notin DOMAIN entries]
    ELSE UNCHANGED <<rows, setHistory, evictedSince>>

CacheSetMany(entries) ==
    /\ CacheOnly
    /\ \A h \in DOMAIN entries : Len(setHistory[h]) < MaxSets
    /\ setMany(entries)
    /\ got' = NoGet
    /\ UNCHANGED <<cleanupEnabled, cleanupInterval>>
    /\ cacheCall' = NoCall
    /\ UNCHANGED initializeEnd
    /\ UNCHANGED <<cacheAvailable, now>>

\* cleanup(maxAgeMs)
CacheCleanup(maxAge) ==
    /\ CacheOnly
    /\ IF cacheAvailable
       THEN Evict(OlderThan(rows, now - maxAge))
       ELSE UNCHANGED <<rows, evictedSince>>
    /\ got' = NoGet
    /\ UNCHANGED <<cleanupEnabled, cleanupInterval>>
    /\ cacheCall' = NoCall
    /\ UNCHANGED initializeEnd
    /\ UNCHANGED <<cacheAvailable, now, setHistory>>

\* the timer started by startPeriodicCleanup fires: smartCleanup
PeriodicCleanup(maxAge, overSize) ==
    /\ CacheOnly
    /\ cleanupInterval
    /\ cacheAvailable
    /\ \E S \in SmartCleanupRows(rows, maxAge, overSize) : Evict(S)
    /\ got' = NoGet
    /\ UNCHANGED <<cleanupEnabled, cleanupInterval>>
    /\ cacheCall' = NoCall
    /\ UNCHANGED initializeEnd
    /\ UNCHANGED <<cacheAvailable, now, setHistory>>

\* close(): the database is closed, its rows stay on disk
CacheClose ==
    /\ CacheOnly
    /\ cacheAvailable
    /\ cacheAvailable' = FALSE
    /\ cleanupInterval' = FALSE
    /\ got' = NoGet
    /\ UNCHANGED cleanupEnabled
    /\ cacheCall' = NoCall
    /\ UNCHANGED initializeEnd
    /\ UNCHANGED <<rows, now, setHistory, evictedSince>>

\* time passes
Tick ==
    /\ CacheOnly
    /\ now < MaxClock
    /\ now' = now + 1
    /\ got' = NoGet
    /\ UNCHANGED <<cleanupEnabled, cleanupInterval>>
    /\ cacheCall' = NoCall
    /\ UNCHANGED initializeEnd
    /\ UNCHANGED <<cacheAvailable, rows, setHistory, evictedSince>>

\* the maps setMany can be given
EntryMaps == UNION {[S -> Embeddings] : S \in SUBSET Hashes}

CacheNext ==
    \/ \E ok, overSize \in BOOLEAN, maxAge \in MaxAges :
          CacheInitialize(ok, maxAge, overSize)
    \/ \E h \in Hashes : CacheGet(h)
    \/ \E h \in Hashes, e \in Embeddings : CacheSet(h, e)
    \/ \E entries \in EntryMaps : CacheSetMany(entries)
    \/ \E maxAge \in MaxAges : CacheCleanup(maxAge)
    \/ \E maxAge \in MaxAges, overSize \in BOOLEAN :
          PeriodicCleanup(maxAge, overSize)
    \/ CacheClose
    \/ Tick

(***************************************************************************)
(* EMBEDDING STEP: Context.getCachedOrGenerateEmbeddings over the cache    *)
(***************************************************************************)
\* the chunk contents of a batch
Contents == {<<"a">>, <<" ", "a">>, <<"b">>}

\* the batches processChunkBuffer hands over: a single chunk, two chunks of
\* one hash, two chunks of two hashes, the same chunk twice
Batches == {<<<<"a">>>>, <<<<"b">>>>, <<<<"a">>, <<" ", "a">>>>,
            <<<<" ", "a">>, <<"b">>>>, <<<<"b">>, <<"b">>>>}

\* the lists of hashes getMany is asked for
HashLists == {<<>>, <<"h1">>, <<"h2", "h1">>, <<"h2", "h2">>}

\* EmbeddingCache.getContentHash: a digest of the trimmed content
getContentHash(content) == IF Trim(content) = <<"a">> THEN "h1" ELSE "h2"

\* the vector the embedding provider computes for one text
ProviderVector(content) ==
    CASE content = <<"a">> -> <<1>>
      [] content = <<" ", "a">> -> <<2, 3>>
      [] OTHER -> <<0>>

\* embedding.embedBatch(texts)
embedBatch(texts) == [i \in 1..Len(texts) |-> ProviderVector(texts[i])]

\* getMany(contentHashes): the stored rows among the hashes asked for
getMany(contentHashes) ==
    IF ~cacheAvailable \/ contentHashes = <<>>
    THEN <<>>
    ELSE [h \in {x \in Range(contentHashes) : rows[x] # NoRow} |->
             DecodeBuffer(rows[h].embedding)]

CacheGetMany(contentHashes) ==
    /\ CacheOnly
    /\ UNCHANGED <<cleanupEnabled, cleanupInterval>>
    /\ cacheCall' = [op |-> "getMany", value |-> getMany(contentHashes)]
    /\ got' = NoGet
    /\ UNCHANGED <<cacheAvailable, rows, now, setHistory, evictedSince,
                   initializeEnd>>

\* a loop that finds no cached vector for any chunk
AllIndices(contentHashes, cachedEmbeddings) ==
    [i \in 1..Len(contentHashes) |-> i]

\* the indices the loop over the batch found no cached vector for
uncachedIndices(contentHashes, cachedEmbeddings) ==
    SelectSeq([i \in 1..Len(contentHashes) |-> i],
              LAMBDA i : contentHashes[i] \notin DOMAIN cachedEmbeddings)

\* the map handed to setMany: for each hash the last vector generated
embeddingsToCache(contentHashes, uncached, newEmbeddings) ==
    [h \in {contentHashes[uncached[k]] : k \in 1..Len(uncached)} |->
        LET last == CHOOSE k \in 1..Len(uncached) :
                        /\ contentHashes[uncached[k]] = h
                        /\ \A j \in (k + 1)..Len(uncached) :
                              contentHashes[uncached[j]] # h
        IN newEmbeddings[last]]

\* the branch of getCachedOrGenerateEmbeddings taken when the cache is not
\* available: the whole batch goes to the provider
WithoutCacheSkipsProvider(chunkContents) == <<>>

WithoutCache(chunkContents) == <<chunkContents>>

\* getCachedOrGenerateEmbeddings(chunkContents); providerOk: embedBatch
\* answers rather than throws
EmbedBatch(chunkContents, providerOk) ==
    LET contentHashes == [i \in 1..Len(chunkContents) |->
                             getContentHash(chunkContents[i])]
        cachedEmbeddings == getMany(contentHashes)
        uncached == uncachedIndices(contentHashes, cachedEmbeddings)
        uncachedContents == [k \in 1..Len(uncached) |->
                                chunkContents[uncached[k]]]
        newEmbeddings == embedBatch(uncachedContents)
        toCache == embeddingsToCache(contentHashes, uncached, newEmbeddings)
        position(i) == CHOOSE k \in 1..Len(uncached) : uncached[k] = i
    IN /\ CacheOnly
       /\ IF ~cacheAvailable
          THEN /\ cacheCall' =
                     [op |-> "embed", contents |-> chunkContents,
                      provider |-> WithoutCache(chunkContents),
                      end |-> IF providerOk THEN "returned" ELSE "raised",
                      results |-> IF providerOk THEN embedBatch(chunkContents)
                                  ELSE <<>>,
                      written |-> <<>>]
               /\ UNCHANGED <<rows, setHistory, evictedSince>>
          ELSE IF uncached = <<>>
          THEN /\ cacheCall' =
                     [op |-> "embed", contents |-> chunkContents,
                      provider |-> <<>>, end |-> "returned",
                      results |-> [i \in 1..Len(chunkContents) |->
                                      cachedEmbeddings[contentHashes[i]]],
                      written |-> <<>>]
               /\ UNCHANGED <<rows, setHistory, evictedSince>>
          ELSE IF ~providerOk
          THEN /\ cacheCall' =
                     [op |-> "embed", contents |-> chunkContents,
                      provider |-> <<uncachedContents>>, end |-> "raised",
                      results |-> <<>>, written |-> <<>>]
               /\ UNCHANGED <<rows, setHistory, evictedSince>>
          ELSE /\ \A h \in DOMAIN toCache : Len(setHistory[h]) < MaxSets
               /\ cacheCall' =
                     [op |-> "embed", contents |-> chunkContents,
                      provider |-> <<uncachedContents>>, end |-> "returned",
                      results |-> [i \in 1..Len(chunkContents) |->
                                      IF contentHashes[i]
                                             \in DOMAIN cachedEmbeddings
                                      THEN cachedEmbeddings[contentHashes[i]]
                                      ELSE newEmbeddings[position(i)]],
                      written |-> <<toCache>>]
               /\ setMany(toCache)
       /\ got' = NoGet
       /\ UNCHANGED <<cacheAvailable, now, initializeEnd, cleanupEnabled,
                      cleanupInterval>>

\* the map of a batch's own vectors, as a caller of setMany builds it
BatchEntries(chunkContents) ==
    LET contentHashes == [i \in 1..Len(chunkContents) |->
                             getContentHash(chunkContents[i])]
    IN embeddingsToCache(contentHashes,
                         [i \in 1..Len(chunkContents) |-> i],
                         embedBatch(chunkContents))

\* the cache as the indexing pipeline uses it: what is stored under the hash
\* of a content is a vector the provider computed for it
EmbedderNext ==
    \/ \E ok, overSize \in BOOLEAN, maxAge \in MaxAges :
          CacheInitialize(ok, maxAge, overSize)
    \/ \E h \in Hashes : CacheGet(h)
    \/ \E contentHashes \in HashLists : CacheGetMany(contentHashes)
    \/ \E content \in Contents :
          CacheSet(getContentHash(content), ProviderVector(content))
    \/ \E chunkContents \in Batches :
          CacheSetMany(BatchEntries(chunkContents))
    \/ \E maxAge \in MaxAges : CacheCleanup(maxAge)
    \/ \E chunkContents \in Batches, providerOk \in BOOLEAN :
          EmbedBatch(chunkContents, providerOk)
    \/ CacheClose

(***************************************************************************)
(* Claims about the embedding cache.                                       *)
(***************************************************************************)
\* the float32 values of a vector given to set
AsFloat32(embedding) == DecodeBuffer(EncodeBuffer(embedding))

OpenFailed == initializeEnd \notin {"none", "opened"}

\* C11: when the backing store cannot be opened, initialize() returns
\* without raising; from then on get returns none, getMany returns the empty
\* map, no operation changes the stored rows, and the embedding step sends
\* the whole batch to the provider in one call and writes nothing back.
C11_FailedOpenDisablesCache ==
    /\ [](initializeEnd # "raised")
    /\ [](OpenFailed =>
            /\ got # NoGet => got.value = Null
            /\ cacheCall.op = "getMany" => cacheCall.value = <<>>
            /\ cacheCall.op = "embed" =>
                  /\ cacheCall.provider = <<cacheCall.contents>>
                  /\ cacheCall.written = <<>>)
    /\ [][(OpenFailed /\ OpenFailed') => rows' = rows]_vars

\* C11 witness: after a failed initialize() a batch of two chunks was sent
\* whole to the provider, although the database file still holds a row for
\* one of them from an earlier run.
C11_Witness ==
    /\ OpenFailed
    /\ cacheCall.op = "embed"
    /\ Len(cacheCall.contents) = 2
    /\ cacheCall.provider = <<cacheCall.contents>>
    /\ cacheCall.end = "returned"
    /\ \E i \in 1..2 : rows[getContentHash(cacheCall.contents[i])] # NoRow

\* a step in which the embedding step ran on an available cache and
\* returned
EmbeddedWithCache ==
    /\ cacheAvailable
    /\ cacheCall'.op = "embed"
    /\ cacheCall'.end = "returned"

\* the hash of chunk i of the batch of the step
BatchHash(i) == getContentHash(cacheCall'.contents[i])

\* the chunks of the batch whose hash had no row when the step began
Misses ==
    SelectSeq([i \in 1..Len(cacheCall'.contents) |-> i],
              LAMBDA i : rows[BatchHash(i)] = NoRow)

\* one vector per chunk in input order, the cached one for a hit and the
\* provider's for a miss; the provider is called at most once, with the
\* missed contents; there is one setMany if there was a miss, none otherwise
OneVectorPerChunk ==
    LET call == cacheCall'
    IN /\ Len(call.results) = Len(call.contents)
       /\ \A i \in 1..Len(call.contents) :
             call.results[i] =
                IF rows[BatchHash(i)] # NoRow
                THEN DecodeBuffer(rows[BatchHash(i)].embedding)
                ELSE ProviderVector(call.contents[i])
       /\ call.provider =
             IF Misses = <<>> THEN <<>>
             ELSE <<[k \in 1..Len(Misses) |-> call.contents[Misses[k]]]>>
       /\ Len(call.written) = IF Misses = <<>> THEN 0 ELSE 1
       /\ Misses # <<>> =>
             /\ DOMAIN call.written[1] = {BatchHash(i) : i \in Range(Misses)}
             /\ \A h \in DOMAIN call.written[1] :
                   rows'[h] = Row(call.written[1][h], now)

CacheParked ==
    /\ cacheAvailable = FALSE
    /\ rows = [h \in Hashes |-> NoRow]
    /\ now = 0
    /\ setHistory = [h \in Hashes |-> <<>>]
    /\ evictedSince = [h \in Hashes |-> FALSE]
    /\ got = [hash |-> "parked"]
    /\ initializeEnd = "none"
    /\ cacheCall = NoCall
    /\ cleanupEnabled = FALSE
    /\ cleanupInterval = FALSE

\* C29: with cleanup disabled by configuration the cache performs no
\* automatic eviction: initialize() schedules no periodic cleanup, and it
\* deletes no row by age or size.
C29_DisabledCleanupEvictsNothing ==
    /\ [](~cleanupEnabled => ~cleanupInterval)
    /\ [][(~cleanupEnabled /\ ~cacheAvailable /\ cacheAvailable') =>
             rows' = rows]_vars

(***************************************************************************)
(* PRF ENGINE: text processing                                             *)
(***************************************************************************)
LowerCase == {"a", "b", "c", "d", "e", "g", "h", "i", "k", "r", "s", "t",
              "u", "x", "y"}

UpperCase == {"C", "U"}

Digits == {"1", "2"}

IsLetter(c) == c \in LowerCase \cup UpperCase

\* \w
IsWordChar(c) == IsLetter(c) \/ c \in Digits \/ c = "_"

\* String.toLowerCase on one character
LowerChar(c) == CASE c = "C" -> "c" [] c = "U" -> "u" [] OTHER -> c

toLowerCase(s) == [i \in 1..Len(s) |-> LowerChar(s[i])]

RECURSIVE Join(_)
\* the concatenation of a sequence of strings
Join(parts) == IF parts = <<>> THEN <<>> ELSE Head(parts) \o Join(Tail(parts))

\* replace(/([a-z])([A-Z])/g, '$1 $2')
SplitCamelCase(s) ==
    Join([i \in 1..Len(s) |->
            IF i < Len(s) /\ s[i] \in LowerCase /\ s[i + 1] \in UpperCase
            THEN <<s[i], " ">> ELSE <<s[i]>>])

\* replace(/_+/g, ' ') and replace(/-+/g, ' '): a run of c becomes one space
ReplaceRuns(s, c) ==
    Join([i \in 1..Len(s) |->
            IF s[i] # c THEN <<s[i]>>
            ELSE IF i > 1 /\ s[i - 1] = c THEN <<>> ELSE <<" ">>])

\* replace(/([a-zA-Z])(\d)/g, '$1 $2')
SplitAlphaNumeric(s) ==
    Join([i \in 1..Len(s) |->
            IF i < Len(s) /\ IsLetter(s[i]) /\ s[i + 1] \in Digits
            THEN <<s[i], " ">> ELSE <<s[i]>>])

\* replace(/(\d)([a-zA-Z])/g, '$1 $2')
SplitNumericAlpha(s) ==
    Join([i \in 1..Len(s) |->
            IF i < Len(s) /\ s[i] \in Digits /\ IsLetter(s[i + 1])
            THEN <<s[i], " ">> ELSE <<s[i]>>])

\* replace(/[^\w\s]/g, ' ')
ReplaceSpecial(s) ==
    [i \in 1..Len(s) |-> IF IsWordChar(s[i]) \/ IsSpace(s[i]) THEN s[i] ELSE " "]

\* replace(/\s+/g, ' ')
NormalizeWhitespace(s) ==
    Join([i \in 1..Len(s) |->
            IF ~IsSpace(s[i]) THEN <<s[i]>>
            ELSE IF i > 1 /\ IsSpace(s[i - 1]) THEN <<>> ELSE <<" ">>])

\* preprocessContent
preprocessContent(content, codeTokens) ==
    IF content = <<>>
    THEN <<>>
    ELSE LET processed ==
                 IF codeTokens
                 THEN SplitNumericAlpha(SplitAlphaNumeric(
                          ReplaceRuns(ReplaceRuns(SplitCamelCase(content), "_"),
                                      "-")))
                 ELSE content
         IN Trim(toLowerCase(NormalizeWhitespace(ReplaceSpecial(processed))))

RECURSIVE WordsFrom(_, _, _)
WordsFrom(s, cur, acc) ==
    IF s = <<>>
    THEN IF cur = <<>> THEN acc ELSE Append(acc, cur)
    ELSE IF IsSpace(Head(s))
         THEN WordsFrom(Tail(s), <<>>,
                        IF cur = <<>> THEN acc ELSE Append(acc, cur))
         ELSE WordsFrom(Tail(s), Append(cur, Head(s)), acc)

\* doc.split(/\s+/).filter(term => term.length > 0)
Words(s) == WordsFrom(s, <<>>, <<>>)

\* String.includes
Includes(s, t) ==
    \E i \in 0..(Len(s) - Len(t)) : \A j \in 1..Len(t) : s[i + j] = t[j]

\* isNoisePattern: /^[a-z]$/, /^\d+[a-z]?$/, /^x{2,}$/, /^[xyz]\d*$/
isNoisePattern(term) ==
    \/ Len(term) = 1 /\ term[1] \in LowerCase
    \/ /\ Len(term) >= 1
       /\ term[1] \in Digits
       /\ \A i \in 1..(Len(term) - 1) : term[i] \in Digits
       /\ term[Len(term)] \in Digits \cup LowerCase
    \/ Len(term) >= 2 /\ \A i \in 1..Len(term) : term[i] = "x"
    \/ /\ Len(term) >= 1
       /\ term[1] \in {"x", "y", "z"}
       /\ \A i \in 2..Len(term) : term[i] \in Digits

\* the words of DEFAULT_PRF_CONFIG.stopWords the documents below can hold
StopWords == {<<"t", "h", "e">>, <<"g", "e", "t">>, <<"s", "e", "t">>,
              <<"a">>, <<"i">>, <<"a", "t">>, <<"b", "e">>, <<"i", "s">>,
              <<"i", "t">>, <<"u", "s">>, <<"h", "e">>, <<"s", "h", "e">>,
              <<"t", "h", "i", "s">>, <<"h", "a", "s">>, <<"h", "a", "d">>,
              <<"a", "r", "e">>, <<"h", "e", "r">>, <<"i", "t", "s">>,
              <<"h", "i", "s">>, <<"d", "i", "d">>, <<"t", "h", "a", "t">>,
              <<"t", "h", "e", "s", "e">>, <<"b", "u", "t">>,
              <<"h", "a", "c", "k">>}

\* shouldIncludeTerm
shouldIncludeTerm(term, originalQuery, config) ==
    /\ Len(term) >= config.minTermLength
    /\ toLowerCase(term) \notin StopWords
    /\ ~Includes(toLowerCase(originalQuery), toLowerCase(term))
    /\ ~(\A i \in 1..Len(term) : term[i] \in Digits)
    /\ Len(term) >= 1 /\ IsLetter(term[1])
    /\ ~isNoisePattern(term)

(***************************************************************************)
(* PRF ENGINE: term statistics and expandQuery                             *)
(***************************************************************************)
\* the number of search results handed to expandQuery
MaxDocs == 3
\* the largest Date.now() - startTime
MaxElapsed == 1
\* the number of expandQuery calls between two resets of the statistics
MaxQueries == 2

\* Math.log(N / (numDocs + 1)) + 1 in millionths, by N and numDocs
IdfTable ==
    <<<<306853>>,
      <<1000000, 594535>>,
      <<1405465, 1000000, 712318>>,
      <<1693147, 1287682, 1000000, 776856>>,
      <<1916291, 1510826, 1223144, 1000000, 817678>>>>

\* calculateInverseDocumentFrequency for a term found in numDocs documents
calculateInverseDocumentFrequency(corpusLength, numDocs) ==
    IF corpusLength = 0 THEN 0 - 1000000 ELSE IdfTable[corpusLength][numDocs]

\* the count of calculateTermFrequency: doc[i].toLowerCase() ===
\* term.toLowerCase()
Occurrences(term, doc) ==
    LET lower == toLowerCase(term)
    IN Cardinality({i \in 1..Len(doc) : toLowerCase(doc[i]) = lower})

\* a score is the fraction num / den (of millionths)
ScoreLess(a, b) == a.num * b.den < b.num * a.den

\* Math.max over a non-empty set of scores
MaxScore(scores) ==
    CHOOSE a \in scores : \A b \in scores : ~ScoreLess(a, b)

RECURSIVE Unique(_, _)
\* [...new Set(terms)]: the first occurrences, in order
Unique(terms, acc) ==
    IF terms = <<>> THEN acc
    ELSE Unique(Tail(terms),
                IF Head(terms) \in Range(acc) THEN acc
                ELSE Append(acc, Head(terms)))

RECURSIVE SumOver(_, _)
\* the sum of count[d] for d in S
SumOver(count, S) ==
    IF S = {} THEN 0
    ELSE LET d == CHOOSE x \in S : TRUE IN count[d] + SumOver(count, S \ {d})

\* the termStats entry of term: tf is numOccurrences / (doc.length + 1),
\* the score kept is the largest tf * idf over the documents holding term
TermStats(term, documents) ==
    LET count == [d \in 1..Len(documents) |-> Occurrences(term, documents[d])]
        holders == {d \in 1..Len(documents) : count[d] > 0}
        idf == calculateInverseDocumentFrequency(Len(documents),
                                                 Cardinality(holders))
    IN [term |-> term,
        score |-> MaxScore({[num |-> count[d] * idf,
                             den |-> Len(documents[d]) + 1] : d \in holders}),
        frequency |-> SumOver(count, holders),
        documentCount |-> Cardinality(holders),
        source |-> "tfidf"]

\* calculateTermStatistics: the entries of termStats in insertion order;
\* documents are the term lists of the processed documents
calculateTermStatistics(documents) ==
    LET keys == Unique(Join(documents), <<>>)
    IN [i \in 1..Len(keys) |-> TermStats(keys[i], documents)]

RECURSIVE Filter(_, _, _)
\* candidates.filter(term => shouldIncludeTerm(term.term, originalQuery))
Filter(candidates, originalQuery, config) ==
    IF candidates = <<>> THEN <<>>
    ELSE (IF shouldIncludeTerm(Head(candidates).term, originalQuery, config)
          THEN <<Head(candidates)>> ELSE <<>>)
         \o Filter(Tail(candidates), originalQuery, config)

\* x put behind every entry of the sorted list whose score is not less
InsertByScore(sorted, x) ==
    LET k == Cardinality({i \in 1..Len(sorted) :
                             \A j \in 1..i : ~ScoreLess(sorted[j].score, x.score)})
    IN SubSeq(sorted, 1, k) \o <<x>> \o SubSeq(sorted, k + 1, Len(sorted))

\* a sort that leaves the candidates as they come
SortKeepsOrder(candidates, sorted) == candidates

RECURSIVE SortByScore(_, _)
\* sort((a, b) => b.score - a.score): descending and stable
SortByScore(candidates, sorted) ==
    IF candidates = <<>> THEN sorted
    ELSE SortByScore(Tail(candidates), InsertByScore(sorted, Head(candidates)))

\* slice(0, n)
Slice(list, n) == SubSeq(list, 1, Min(n, Len(list)))

\* extractExpansionTerms on well-formed documents
extractExpansionTerms(originalQuery, pseudoRelevantDocs, config) ==
    LET processedDocs == [d \in 1..Len(pseudoRelevantDocs) |->
                             Words(preprocessContent(
                                 pseudoRelevantDocs[d].content,
                                 config.codeTokens))]
    IN Slice(SortByScore(Filter(calculateTermStatistics(processedDocs),
                                originalQuery, config), <<>>),
             config.expansionTerms)

\* topTerms.join(' ')
JoinTerms(terms) ==
    Join([i \in 1..Len(terms) |->
            IF i = 1 THEN terms[i].term ELSE <<" ">> \o terms[i].term])

\* buildExpandedQuery; weights are in tenths
buildExpandedQuery(originalQuery, expansionTerms, config) ==
    IF expansionTerms = <<>>
    THEN originalQuery
    ELSE LET topTerms == Slice(expansionTerms, config.expansionTerms)
             expansionWeight == 10 - config.originalWeight
         IN IF expansionWeight > 5
            THEN JoinTerms(topTerms) \o <<" ">> \o originalQuery
            ELSE originalQuery \o <<" ">> \o JoinTerms(topTerms)

\* the configurations: the default one, one that puts the expansion terms
\* first and keeps one of them, one that analyses two documents as they are
PrfConfigs ==
    {[topK |-> 7, expansionTerms |-> 8, minTermFreq |-> 2,
      originalWeight |-> 7, codeTokens |-> TRUE, minTermLength |-> 3],
     [topK |-> 3, expansionTerms |-> 1, minTermFreq |-> 2,
      originalWeight |-> 3, codeTokens |-> TRUE, minTermLength |-> 2],
     [topK |-> 2, expansionTerms |-> 8, minTermFreq |-> 1,
      originalWeight |-> 7, codeTokens |-> FALSE, minTermLength |-> 3]}

\* the originalQuery arguments: "", " ", "user", "Cache key"
PrfQueries ==
    {<<>>, <<" ">>, <<"u", "s", "e", "r">>,
     <<"C", "a", "c", "h", "e", " ", "k", "e", "y">>}

\* a search result with the given content
TextDoc(content) == [kind |-> "text", content |-> content]

\* a search result whose content is not a string
BrokenDoc == [kind |-> "object", content |-> <<>>]

\* chunk contents: "getUser the Cache-key" and "user_id x1  cache.hit key2"
GetUserText ==
    <<"g", "e", "t", "U", "s", "e", "r", " ", "t", "h", "e", " ",
      "C", "a", "c", "h", "e", "-", "k", "e", "y">>

UserIdText ==
    <<"u", "s", "e", "r", "_", "i", "d", " ", "x", "1", " ", " ",
      "c", "a", "c", "h", "e", ".", "h", "i", "t", " ", "k", "e", "y", "2">>

\* the search results: the two contents, "" and the broken one
PrfDocs == {TextDoc(GetUserText), TextDoc(UserIdText), TextDoc(<<>>), BrokenDoc}

\* the searchResults arguments
PrfDocLists == UNION {[1..n -> PrfDocs] : n \in 0..MaxDocs}

NoStats == [totalQueries |-> 0, totalProcessingTime |-> 0,
            successfulExpansions |-> 0]

NoOutcome == [kind |-> "none"]

\* createEmptyResult, the elapsed time left out
createEmptyResult(originalQuery, reason) ==
    [originalQuery |-> originalQuery, expandedQuery |-> originalQuery,
     expansionTerms |-> <<>>, documentsAnalyzed |-> 0,
     reasoning |-> <<reason>>]

\* a threshold that any result meets
RequiredDocsOne(topK) == 1

\* Math.min(3, this.config.topK)
RequiredDocs(topK) == Min(3, topK)

\* the body of expandQuery's try block: what it returns or throws, the
\* elapsed time left out
TryExpand(originalQuery, searchResults, config) ==
    LET pseudoRelevantDocs == Slice(searchResults, config.topK) IN
    IF Trim(originalQuery) = <<>>
    THEN [thrown |-> TRUE, success |-> FALSE,
          message |-> "Original query cannot be empty"]
    ELSE IF searchResults = <<>>
    THEN [thrown |-> FALSE, success |-> FALSE,
          result |-> createEmptyResult(originalQuery,
                                       "No search results provided")]
    ELSE IF Len(pseudoRelevantDocs) < RequiredDocs(config.topK)
    THEN [thrown |-> FALSE, success |-> FALSE,
          result |-> createEmptyResult(originalQuery, "Insufficient documents")]
    ELSE IF \E d \in 1..Len(pseudoRelevantDocs) :
               pseudoRelevantDocs[d].kind # "text"
    THEN [thrown |-> TRUE, success |-> FALSE,
          message |-> "content.replace is not a function"]
    ELSE LET expansionTerms ==
                 extractExpansionTerms(originalQuery, pseudoRelevantDocs, config)
         IN IF expansionTerms = <<>>
            THEN [thrown |-> FALSE, success |-> FALSE,
                  result |-> createEmptyResult(
                      originalQuery,
                      "No valid expansion terms found after filtering")]
            ELSE [thrown |-> FALSE, success |-> TRUE,
                  result |->
                     [originalQuery |-> originalQuery,
                      expandedQuery |-> buildExpandedQuery(originalQuery,
                                                           expansionTerms, config),
                      expansionTerms |-> expansionTerms,
                      documentsAnalyzed |-> Len(pseudoRelevantDocs),
                      reasoning |-> <<"Analyzed pseudo-relevant documents">>]]

\* mutant: the catch block rethrows
CatchRethrows(originalQuery, message) ==
    [kind |-> "raised", message |-> message]

\* expandQuery's catch block, the elapsed time left out
CatchExpand(originalQuery, message) ==
    [kind |-> "returned",
     result |-> [originalQuery |-> originalQuery,
                 expandedQuery |-> originalQuery,
                 expansionTerms |-> <<>>, documentsAnalyzed |-> 0,
                 reasoning |-> <<"PRF expansion failed", message>>]]

\* processingTimeMs: Date.now() - startTime
Timed(end, elapsed) ==
    IF end.kind = "returned"
    THEN [end EXCEPT !.result =
             [f \in DOMAIN end.result \cup {"processingTimeMs"} |->
                 IF f = "processingTimeMs" THEN elapsed ELSE end.result[f]]]
    ELSE end

PrfInit ==
    /\ prfConfig \in PrfConfigs
    /\ prfStats = NoStats
    /\ prfOutcome = NoOutcome

\* expandQuery(originalQuery, searchResults); the call takes elapsed
\* milliseconds, chosen here
ExpandQuery ==
    /\ PrfOnly
    /\ prfOutcome = NoOutcome
    /\ prfStats.totalQueries < MaxQueries
    /\ \E originalQuery \in PrfQueries, searchResults \in PrfDocLists :
       \E try \in {TryExpand(originalQuery, searchResults, prfConfig)} :
       \E elapsed \in 0..MaxElapsed :
          /\ prfOutcome' =
               [kind |-> "call", query |-> originalQuery,
                docs |-> searchResults, elapsed |-> elapsed,
                thrown |-> try.thrown,
                end |-> Timed(IF try.thrown
                              THEN CatchExpand(originalQuery, try.message)
                              ELSE [kind |-> "returned", result |-> try.result],
                              elapsed)]
          /\ prfStats' =
               [totalQueries |-> prfStats.totalQueries + 1,
                totalProcessingTime |->
                    IF try.thrown \/ try.success
                    THEN prfStats.totalProcessingTime + elapsed
                    ELSE prfStats.totalProcessingTime,
                successfulExpansions |->
                    IF try.success
                    THEN prfStats.successfulExpansions + 1
                    ELSE prfStats.successfulExpansions]
    /\ UNCHANGED prfConfig

\* the caller of expandQuery goes on with what the call gave
ResultTaken ==
    /\ PrfOnly
    /\ prfOutcome # NoOutcome
    /\ prfOutcome' = NoOutcome
    /\ UNCHANGED <<prfConfig, prfStats>>

\* resetStats()
ResetStats ==
    /\ PrfOnly
    /\ prfStats # NoStats
    /\ prfStats' = NoStats
    /\ UNCHANGED <<prfConfig, prfOutcome>>

\* getStats(): the two quotients are kept as fractions
getStats ==
    [totalQueries |-> prfStats.totalQueries,
     avgProcessingTime |->
         IF prfStats.totalQueries > 0
         THEN [num |-> prfStats.totalProcessingTime,
               den |-> prfStats.totalQueries]
         ELSE [num |-> 0, den |-> 1],
     successRate |->
         IF prfStats.totalQueries > 0
         THEN [num |-> prfStats.successfulExpansions,
               den |-> prfStats.totalQueries]
         ELSE [num |-> 0, den |-> 1]]

PrfNext ==
    \/ ExpandQuery
    \/ ResultTaken
    \/ ResetStats

(***************************************************************************)
(* Claims about the PRF engine.                                            *)
(***************************************************************************)
\* C4: expandQuery never raises; whenever its try block failed (an empty
\* query included) it returns a result whose expandedQuery is the original
\* query, whose reasoning records the failure, and which reports the
\* elapsed time.
C4_ExpandQueryNeverRaises ==
    prfOutcome # NoOutcome =>
        /\ prfOutcome.end.kind = "returned"
        /\ prfOutcome.thrown =>
              LET result == prfOutcome.end.result
              IN /\ result.expandedQuery = prfOutcome.query
                 /\ result.originalQuery = prfOutcome.query
                 /\ result.reasoning[1] = "PRF expansion failed"
                 /\ Len(result.reasoning) = 2
                 /\ result.processingTimeMs = prfOutcome.elapsed

\* C4 witness: a call with a non-blank query and enough documents failed on
\* a broken document after some time and was answered with the echo.
C4_Witness ==
    /\ prfOutcome # NoOutcome
    /\ prfOutcome.thrown
    /\ Trim(prfOutcome.query) # <<>>
    /\ Len(prfOutcome.docs) = 3
    /\ prfOutcome.elapsed > 0
    /\ prfOutcome.end.kind = "returned"
    /\ prfOutcome.end.result.expandedQuery = prfOutcome.query

ExtractionRan ==
    /\ prfOutcome.kind = "call"
    /\ ~prfOutcome.thrown
    /\ prfOutcome.docs # <<>>
    /\ Len(Slice(prfOutcome.docs, prfConfig.topK)) >= Min(3, prfConfig.topK)

\* the candidate terms of the analysed documents that pass shouldIncludeTerm
PassingCandidates ==
    LET docs == Slice(prfOutcome.docs, prfConfig.topK)
        processedDocs == [d \in 1..Len(docs) |->
                             Words(preprocessContent(docs[d].content,
                                                     prfConfig.codeTokens))]
    IN {c \in Range(calculateTermStatistics(processedDocs)) :
           shouldIncludeTerm(c.term, prfOutcome.query, prfConfig)}

\* C18: the expansion terms expandQuery returns are exactly the first
\* expansionTerms entries, by descending score, of the candidate terms that
\* pass the filter; each has at least minTermLength characters, is no stop
\* word and does not occur in the lowercased original query.
C18_TopScoredFilteredTerms ==
    ExtractionRan =>
        LET terms == prfOutcome.end.result.expansionTerms
            passing == PassingCandidates
            left == passing \ Range(terms)
        IN /\ Range(terms) \subseteq passing
           /\ Cardinality(Range(terms)) = Len(terms)
           /\ Len(terms) = Min(prfConfig.expansionTerms, Cardinality(passing))
           /\ \A i, j \in 1..Len(terms) :
                 i < j => ~ScoreLess(terms[i].score, terms[j].score)
           /\ \A c \in left :
                 \A i \in 1..Len(terms) : ~ScoreLess(terms[i].score, c.score)
           /\ \A i \in 1..Len(terms) :
                 /\ Len(terms[i].term) >= prfConfig.minTermLength
                 /\ toLowerCase(terms[i].term) \notin StopWords
                 /\ ~Includes(toLowerCase(prfOutcome.query),
                              toLowerCase(terms[i].term))

\* C18 witness: with expansionTerms = 1, several candidates passed the
\* filter and the one returned outscores one that was left out.
C18_Witness ==
    /\ ExtractionRan
    /\ prfConfig.expansionTerms = 1
    /\ Len(prfOutcome.end.result.expansionTerms) = 1
    /\ \E c \in PassingCandidates :
          ScoreLess(c.score, prfOutcome.end.result.expansionTerms[1].score)

\* a step in which expandQuery is called and returns
ExpandQueryCalled == prfOutcome.kind = "none" /\ prfOutcome'.kind = "call"

\* C27: getStats() is a faithful aggregate of the expandQuery calls since
\* the last resetStats: with no call all three figures are 0; every call
\* adds one to totalQueries, adds one to the numerator of successRate exactly
\* when it returned expansion terms, and adds the processing time it
\* reported to the numerator of avgProcessingTime, both over totalQueries;
\* nothing else changes the figures except a reset; successRate lies in
\* [0, 1].
C27_StatsAreFaithfulAggregate ==
    /\ [](prfStats.totalQueries = 0 =>
             /\ getStats.totalQueries = 0
             /\ getStats.avgProcessingTime.num = 0
             /\ getStats.successRate.num = 0)
    /\ [](/\ getStats.successRate.num >= 0
          /\ getStats.successRate.num <= getStats.successRate.den)
    /\ [][ExpandQueryCalled =>
             LET result == prfOutcome'.end.result
             IN /\ getStats'.totalQueries = getStats.totalQueries + 1
                /\ getStats'.successRate.den = getStats'.totalQueries
                /\ getStats'.avgProcessingTime.den = getStats'.totalQueries
                /\ getStats'.successRate.num =
                      prfStats.successfulExpansions
                          + (IF result.expansionTerms # <<>> THEN 1 ELSE 0)
                /\ getStats'.avgProcessingTime.num =
                      prfStats.totalProcessingTime + result.processingTimeMs]_vars
    /\ [][~ExpandQueryCalled => (prfStats' = prfStats \/ prfStats' = NoStats)]_vars

\* C30: minTermFreq is a minimum frequency for including a term: no
\* expansion term returned by expandQuery occurs fewer than minTermFreq
\* times in the analysed documents taken together.
C30_TermsMeetMinTermFreq ==
    (prfOutcome.kind = "call" /\ prfOutcome.end.kind = "returned") =>
        LET terms == prfOutcome.end.result.expansionTerms
        IN \A i \in 1..Len(terms) :
              terms[i].frequency >= prfConfig.minTermFreq

(***************************************************************************)
(* RETRIEVER: Context.semanticSearch, semanticSearchWithPRF and            *)
(* mergeSearchResults, with the store, the embedding provider and the      *)
(* cross-encoder as the environment.                                       *)
(***************************************************************************)
\* the values of topK the callers pass
TopKs == {1, 2}

\* the thresholds the callers pass, in hundredths: the default 0.5
Thresholds == {50}

\* the queries the callers pass: " ", "user" and " Cache key"
SearchQueries ==
    {<<" ">>, <<"u", "s", "e", "r">>,
     <<" ", "C", "a", "c", "h", "e", " ", "k", "e", "y">>}

\* a document of the collection as the store hands it back; score in
\* hundredths
StoredChunk(id, relativePath, startLine, endLine, content, score) ==
    [id |-> id, relativePath |-> relativePath, startLine |-> startLine,
     endLine |-> endLine, content |-> content, score |-> score]

\* the collection: a:1-2 in two versions (ids carry the content hash, so an
\* old version whose deletion failed stays beside the new one) and a:1-12
StoredResults ==
    {StoredChunk(1, <<"a">>, 1, 2, GetUserText, 45),
     StoredChunk(2, <<"a">>, 1, 2, UserIdText, 95),
     StoredChunk(3, <<"a">>, 1, 12, GetUserText, 60)}

\* the answers of the store: every document at most once, in any order
StoreLists ==
    UNION {{h \in [1..n -> StoredResults] :
               \A i, j \in 1..n : i # j => h[i] # h[j]} :
           n \in 0..Cardinality(StoredResults)}

\* `${n}` for a line number
RECURSIVE DecimalString(_)
DecimalString(n) ==
    LET digit == <<"0", "1", "2", "3", "4", "5", "6", "7", "8", "9">>
    IN IF n < 10 THEN <<digit[n + 1]>>
       ELSE DecimalString(n \div 10) \o <<digit[(n % 10) + 1]>>

\* mutant: the key leaves the end line out
ResultKeyWithoutEndLine(result) ==
    result.relativePath \o <<":">> \o DecimalString(result.startLine)

\* `${result.relativePath}:${result.startLine}:${result.endLine}`
ResultKey(result) ==
    result.relativePath \o <<":">> \o DecimalString(result.startLine)
        \o <<":">> \o DecimalString(result.endLine)

\* one for-loop of mergeSearchResults over results
RECURSIVE MergeLoop(_, _, _, _)
MergeLoop(merged, seen, results, topK) ==
    IF results = <<>>
    THEN [merged |-> merged, seen |-> seen]
    ELSE LET key == ResultKey(Head(results))
         IN IF key \notin seen /\ Len(merged) < topK
            THEN MergeLoop(Append(merged, Head(results)), seen \cup {key},
                           Tail(results), topK)
            ELSE MergeLoop(merged, seen, Tail(results), topK)

mergeSearchResults(enhancedResults, originalResults, topK) ==
    LET enhanced == MergeLoop(<<>>, {}, enhancedResults, topK)
    IN MergeLoop(enhanced.merged, enhanced.seen, originalResults, topK).merged

\* what the cross-encoder does with one rerank call: the scores it gives the
\* documents (by id), or a failure of doRerank
RerankOutcomes ==
    {[ok |-> TRUE, scores |-> <<1, 2, 3>>],
     [ok |-> TRUE, scores |-> <<5, 5, 5>>],
     [ok |-> FALSE, scores |-> <<>>]}

\* Array.prototype.sort with (a, b) => b.cross_encoder_score -
\* a.cross_encoder_score: stable, descending
RECURSIVE InsertByCrossEncoder(_, _, _)
InsertByCrossEncoder(sorted, result, scores) ==
    IF sorted = <<>> THEN <<result>>
    ELSE IF scores[Head(sorted).id] < scores[result.id]
         THEN <<result>> \o sorted
         ELSE <<Head(sorted)>> \o InsertByCrossEncoder(Tail(sorted), result, scores)

RECURSIVE SortByCrossEncoder(_, _)
SortByCrossEncoder(results, scores) ==
    IF results = <<>> THEN <<>>
    ELSE InsertByCrossEncoder(
             SortByCrossEncoder(SubSeq(results, 1, Len(results) - 1), scores),
             results[Len(results)], scores)

\* mutant: reranker.doRerank hands back every result it scored
doRerankAll(results, topK, scores) == SortByCrossEncoder(results, scores)

\* HuggingFaceReranker.doRerank once the model is loaded
doRerank(results, topK, scores) ==
    Slice(SortByCrossEncoder(results, scores), topK)

\* BaseReranker.rerank
rerank(results, topK, enabled, outcome) ==
    IF ~enabled THEN Slice(results, topK)
    ELSE IF results = <<>> THEN results
    ELSE IF outcome.ok THEN doRerank(results, topK, outcome.scores)
    ELSE Slice(results, topK)

\* what a search call ends with
Returned(results) == [kind |-> "returned", results |-> results, error |-> ""]

Raised(error) == [kind |-> "raised", results |-> <<>>, error |-> error]

NoEnd == [kind |-> "none", results |-> <<>>, error |-> ""]

\* mutant: a missing collection is reported as an error
NoCollectionRaises == Raised("NotIndexed")

\* semanticSearch on a codebase without collection: return []
NoCollectionResult == Returned(<<>>)

\* the query semanticSearch embeds and searches with.  For a query without
\* abbreviation, concept, camelCase, snake_case, language or file name in it
\* (every query of SearchQueries and every expansion of one) the
\* preprocessor yields the trimmed query as the only variant, and
\* selectBestSearchQuery falls through to normalizedQuery; a blank query is
\* its own normalizedQuery.
primarySearchQuery(query) == IF Trim(query) = <<>> THEN query ELSE Trim(query)

\* BaseReranker.isEnabled() on this.reranker, undefined without a reranker
isEnabled == reranker = "ready"

\* the number of results semanticSearch asks the store for
searchLimit(topK) == IF isEnabled THEN Min(topK * 2, 50) ELSE topK

\* mutant: the dense request carries no threshold
StoreRequestAnyScore(primary, limit, threshold) ==
    IF isHybrid
    THEN [call |-> "hybridSearch", dense |-> primary, sparse |-> primary,
          limit |-> limit]
    ELSE [call |-> "search", vector |-> primary, topK |-> limit,
          threshold |-> 0]

\* the request semanticSearch sends to the store: hybridSearch with the two
\* sub-requests and no threshold, or search with the threshold
StoreRequest(primary, limit, threshold) ==
    IF isHybrid
    THEN [call |-> "hybridSearch", dense |-> primary, sparse |-> primary,
          limit |-> limit]
    ELSE [call |-> "search", vector |-> primary, topK |-> limit,
          threshold |-> threshold]

\* what the store may answer to a request: to search, no document below the
\* threshold of the request; the caller does not rely on the number of
\* documents handed back
HitLists(request) ==
    {h \in StoreLists :
        request.call = "search" =>
            \A i \in 1..Len(h) : h[i].score >= request.threshold}

\* what the environment does during one semanticSearch: the store is down,
\* the embedding provider fails, or the store answers and the cross-encoder
\* scores
SearchEnvs(query, topK, threshold) ==
    LET quiet == [ok |-> TRUE, scores |-> <<5, 5, 5>>]
    IN {[store |-> "down", embedOk |-> TRUE, hits |-> <<>>, rerank |-> quiet],
        [store |-> "up", embedOk |-> FALSE, hits |-> <<>>, rerank |-> quiet]}
       \cup
       {[store |-> "up", embedOk |-> TRUE, hits |-> h, rerank |-> o] :
           h \in IF collection
                 THEN HitLists(StoreRequest(primarySearchQuery(query),
                                            searchLimit(topK), threshold))
                 ELSE {<<>>},
           o \in IF isEnabled THEN RerankOutcomes ELSE {quiet}}

\* semanticSearch(codebasePath, query, topK, threshold) in the environment
\* env: how it ends, the arguments it was called with, what hasCollection
\* answered, the requests it sent to the store, the store's answers and the
\* calls it made of reranker.rerank
semanticSearch(query, topK, threshold, env) ==
    LET primary == primarySearchQuery(query)
        args == [query |-> query, topK |-> topK, threshold |-> threshold]
        quiet == [has |-> "throws", requests |-> <<>>, answers |-> <<>>,
                  reranked |-> <<>>, args |-> args]
    IN IF env.store = "down"
       THEN [quiet EXCEPT !.has = "throws"] @@ [end |-> Raised("store")]
       ELSE IF ~collection
       THEN [quiet EXCEPT !.has = "no"] @@ [end |-> NoCollectionResult]
       ELSE IF ~env.embedOk
       THEN [quiet EXCEPT !.has = "yes"] @@ [end |-> Raised("embedding")]
       ELSE LET searchResults == env.hits
                reranks == isEnabled /\ searchResults # <<>>
                finalSearchResults ==
                    IF reranks
                    THEN rerank(searchResults, topK, isEnabled, env.rerank)
                    ELSE Slice(searchResults, topK)
            IN [end |-> Returned(finalSearchResults),
                args |-> args,
                has |-> "yes",
                requests |->
                    <<StoreRequest(primary, searchLimit(topK), threshold)>>,
                answers |-> <<searchResults>>,
                reranked |->
                    IF reranks
                    THEN <<[query |-> primary, results |-> searchResults,
                            topK |-> topK]>>
                    ELSE <<>>]

NoEngine == [kind |-> "none"]

IdleSearch ==
    [pc |-> "idle", kind |-> "none", query |-> <<>>, topK |-> 0,
     threshold |-> 0, first |-> <<>>, expandedQuery |-> <<>>,
     enhanced |-> <<>>, passes |-> <<>>, has |-> <<>>, requests |-> <<>>,
     answers |-> <<>>, reranked |-> <<>>,
     failed |-> "none", end |-> NoEnd]

\* a Context right after construction: HYBRID_MODE either way, PRF and
\* reranking configured or not, nothing indexed yet
RetrieverInit ==
    /\ isHybrid \in BOOLEAN
    /\ prfEngine \in {NoEngine}
           \cup {[kind |-> "engine", config |-> c, totalQueries |-> 0] :
                    c \in PrfConfigs}
    /\ reranker \in {"none", "created"}
    /\ collection = FALSE
    /\ search = IdleSearch

\* indexCodebase's prepareCollection creates the collection
CreateCollection ==
    /\ RetrieverOnly
    /\ ~collection
    /\ collection' = TRUE
    /\ UNCHANGED <<isHybrid, prfEngine, reranker, search>>

\* clearIndex drops it
DropCollection ==
    /\ RetrieverOnly
    /\ collection
    /\ collection' = FALSE
    /\ UNCHANGED <<isHybrid, prfEngine, reranker, search>>

\* the application loads the model itself: getReranker()?.initialize()
WarmUp ==
    /\ RetrieverOnly
    /\ reranker = "created"
    /\ reranker' = "ready"
    /\ UNCHANGED <<isHybrid, prfEngine, collection, search>>

\* the record of a call that went through out, a result of semanticSearch
Logged(call, out) ==
    [call EXCEPT !.passes = Append(@, out.args),
                 !.has = Append(@, out.has),
                 !.requests = @ \o out.requests,
                 !.answers = @ \o out.answers,
                 !.reranked = @ \o out.reranked]

\* a whole semanticSearch(codebasePath, query, topK, threshold) made for a
\* call of the given kind
PlainSearch(kind) ==
    \E query \in SearchQueries, topK \in TopKs, threshold \in Thresholds :
    \E env \in SearchEnvs(query, topK, threshold) :
       LET out == semanticSearch(query, topK, threshold, env)
           call == [IdleSearch EXCEPT !.kind = kind, !.query = query,
                                      !.topK = topK, !.threshold = threshold]
       IN search' = [Logged(call, out) EXCEPT !.pc = "done", !.end = out.end]

\* semanticSearch called by the application
SemanticSearch ==
    /\ RetrieverOnly
    /\ search.pc = "idle"
    /\ PlainSearch("plain")
    /\ UNCHANGED <<isHybrid, prfEngine, reranker, collection>>

\* semanticSearchWithPRF without PRF engine: the plain search
SearchWithoutPRF ==
    /\ RetrieverOnly
    /\ search.pc = "idle"
    /\ prfEngine = NoEngine
    /\ PlainSearch("prf")
    /\ UNCHANGED <<isHybrid, prfEngine, reranker, collection>>

\* mutant: the first pass asks for the same number on every call
initialTopKOfTwelve(topK) == Max(12, topK * 2)

\* Math.max(totalQueries === 0 ? 15 : 12, topK * 2)
initialTopK(topK) ==
    Max(IF prfEngine.totalQueries = 0 THEN 15 ELSE 12, topK * 2)

\* threshold * 0.8, in hundredths
LoweredThreshold(threshold) == (threshold * 8) \div 10

\* the search results as expandQuery reads them
AsDocuments(results) == [i \in 1..Len(results) |-> TextDoc(results[i].content)]

\* prfEngine.expandQuery(query, pseudoRelevantResults): the PRFResult
expandQuery(query, pseudoRelevantResults) ==
    LET try == TryExpand(query, AsDocuments(pseudoRelevantResults),
                         prfEngine.config)
    IN IF try.thrown THEN CatchExpand(query, try.message).result
       ELSE try.result

\* semanticSearchWithPRF up to its second await: the first pass and
\* expandQuery.  A failed first pass goes to the catch block, an empty one
\* and a trivial expansion return.
PrfFirstPass ==
    /\ RetrieverOnly
    /\ search.pc = "idle"
    /\ prfEngine # NoEngine
    /\ prfEngine.totalQueries < MaxQueries
    /\ \E query \in SearchQueries, topK \in TopKs, threshold \in Thresholds :
       \E env \in SearchEnvs(query, initialTopK(topK),
                              LoweredThreshold(threshold)) :
          LET out == semanticSearch(query, initialTopK(topK),
                                    LoweredThreshold(threshold), env)
              call == Logged([IdleSearch EXCEPT !.kind = "prf",
                                                !.query = query,
                                                !.topK = topK,
                                                !.threshold = threshold], out)
              pseudoRelevantResults == out.end.results
          IN IF out.end.kind = "raised"
             THEN /\ search' = [call EXCEPT !.pc = "fallback",
                                            !.failed = "pass1"]
                  /\ UNCHANGED prfEngine
             ELSE IF pseudoRelevantResults = <<>>
             THEN /\ search' = [call EXCEPT !.pc = "done",
                                            !.end = Returned(<<>>)]
                  /\ UNCHANGED prfEngine
             ELSE LET prfResult == expandQuery(query, pseudoRelevantResults)
                      found == [call EXCEPT
                                   !.first = pseudoRelevantResults,
                                   !.expandedQuery = prfResult.expandedQuery]
                  IN /\ prfEngine' =
                          [prfEngine EXCEPT !.totalQueries = @ + 1]
                     /\ IF \/ prfResult.expandedQuery = prfResult.originalQuery
                           \/ prfResult.expansionTerms = <<>>
                        THEN search' =
                               [found EXCEPT
                                   !.pc = "done",
                                   !.end = Returned(
                                       Slice(pseudoRelevantResults, topK))]
                        ELSE search' = [found EXCEPT !.pc = "pass2"]
    /\ UNCHANGED <<isHybrid, reranker, collection>>

\* the second pass with the expanded query and the merge
PrfSecondPass ==
    /\ RetrieverOnly
    /\ search.pc = "pass2"
    /\ \E env \in SearchEnvs(search.expandedQuery, search.topK,
                              search.threshold) :
          LET out == semanticSearch(search.expandedQuery, search.topK,
                                    search.threshold, env)
              call == Logged(search, out)
              enhancedResults == out.end.results
          IN IF out.end.kind = "raised"
             THEN search' = [call EXCEPT !.pc = "fallback",
                                         !.failed = "pass2"]
             ELSE search' =
                    [call EXCEPT
                        !.pc = "done",
                        !.enhanced = enhancedResults,
                        !.end = Returned(mergeSearchResults(
                                    enhancedResults,
                                    Slice(search.first, search.topK),
                                    search.topK))]
    /\ UNCHANGED <<isHybrid, prfEngine, reranker, collection>>

\* the catch block: "Falling back to regular semantic search"
PrfFallback ==
    /\ RetrieverOnly
    /\ search.pc = "fallback"
    /\ \E env \in SearchEnvs(search.query, search.topK, search.threshold) :
          LET out == semanticSearch(search.query, search.topK,
                                    search.threshold, env)
          IN search' = [Logged(search, out) EXCEPT !.pc = "done",
                                                   !.end = out.end]
    /\ UNCHANGED <<isHybrid, prfEngine, reranker, collection>>

\* the caller goes on with what the call gave
SearchTaken ==
    /\ RetrieverOnly
    /\ search.pc = "done"
    /\ search' = IdleSearch
    /\ UNCHANGED <<isHybrid, prfEngine, reranker, collection>>

RetrieverNext ==
    \/ CreateCollection
    \/ DropCollection
    \/ WarmUp
    \/ SemanticSearch
    \/ SearchWithoutPRF
    \/ PrfFirstPass
    \/ PrfSecondPass
    \/ PrfFallback
    \/ SearchTaken

(***************************************************************************)
(* Claims about the retriever.                                             *)
(***************************************************************************)
\* C5: whenever the second pass of semanticSearchWithPRF (or the expansion)
\* failed, the call does not raise and returns the first-pass results.
C5_FailureGivesFirstPass ==
    (search.pc = "done" /\ search.kind = "prf" /\ search.failed = "pass2") =>
        /\ search.end.kind = "returned"
        /\ search.end.results \in {search.first,
                                   Slice(search.first, search.topK)}

\* C6: a search, plain or PRF-enhanced, during which the store answered
\* every hasCollection with "no" returns the empty list, and sends the store
\* no search request.
C6_MissingCollectionGivesEmpty ==
    (/\ search.pc = "done"
     /\ search.has # <<>>
     /\ \A i \in 1..Len(search.has) : search.has[i] = "no") =>
        /\ search.end = Returned(<<>>)
        /\ search.requests = <<>>

\* C6 witness: a PRF-enhanced search with a PRF engine found no collection
\* and returned the empty list.
C6_Witness ==
    /\ search.pc = "done"
    /\ search.kind = "prf"
    /\ prfEngine # NoEngine
    /\ search.has = <<"no">>
    /\ search.end = Returned(<<>>)

\* two results are duplicates: all three fields are equal
SameChunk(r, s) ==
    /\ r.relativePath = s.relativePath
    /\ r.startLine = s.startLine
    /\ r.endLine = s.endLine

\* list without every entry that duplicates an earlier one
FirstOccurrences(list) ==
    LET kept == SelectSeq([i \in 1..Len(list) |-> i],
                          LAMBDA i : \A j \in 1..(i - 1) :
                                        ~SameChunk(list[j], list[i]))
    IN [k \in 1..Len(kept) |-> list[kept[k]]]

\* the search call went through both passes
BothPassesDone ==
    /\ search.pc = "done"
    /\ search.kind = "prf"
    /\ search.failed = "none"
    /\ Len(search.has) = 2

\* C7 as stated: after a non-trivial expansion the call returns the first
\* topK entries of (second-pass results, then all first-pass results)
\* without the entries that duplicate an earlier one.
C7_MergeOfWholeFirstPass ==
    BothPassesDone =>
        search.end.results =
            Slice(FirstOccurrences(search.enhanced \o search.first),
                  search.topK)

\* C7 amended: after a non-trivial expansion and a second pass that
\* returned, the call returns the first topK entries of (second-pass
\* results, then the first topK first-pass results)
\* without the entries that duplicate an earlier one; duplicates are the
\* entries equal in relativePath, startLine and endLine.
C7_MergeOfFirstTopK ==
    BothPassesDone =>
        search.end.results =
            Slice(FirstOccurrences(
                      search.enhanced \o Slice(search.first, search.topK)),
                  search.topK)

\* C7 witness: both passes answered, a second-pass result is repeated among
\* the first topK first-pass results, and the merged list is filled up to
\* topK with a first-pass result.
C7_Witness ==
    /\ BothPassesDone
    /\ search.topK = 2
    /\ Len(search.enhanced) = 1
    /\ \E i \in 1..search.topK : SameChunk(search.first[i], search.enhanced[1])
    /\ Len(search.end.results) = 2
    /\ search.end.results[1] = search.enhanced[1]
    /\ ~SameChunk(search.end.results[2], search.enhanced[1])

\* C8: a plain search with a reranker configured and a non-empty answer of
\* the store initialises the reranker, calls it once with the primary
\* variant and the store's answer, and returns at most topK results.
C8_ConfiguredRerankerIsUsed ==
    (/\ search.pc = "done"
     /\ search.kind = "plain"
     /\ reranker # "none"
     /\ search.end.kind = "returned"
     /\ search.answers # <<>>
     /\ search.answers[1] # <<>>) =>
        /\ reranker = "ready"
        /\ search.reranked =
              <<[query |-> primarySearchQuery(search.query),
                 results |-> search.answers[1], topK |-> search.topK]>>
        /\ Len(search.end.results) <= search.topK

\* the step is a call of semanticSearchWithPRF on a Context with PRF engine:
\* its first pass is made in this step
PrfCallBegins ==
    /\ search.pc = "idle"
    /\ search'.pc # "idle"
    /\ search'.kind = "prf"
    /\ prfEngine # NoEngine

\* C23 as stated: on every call, the first pass of semanticSearchWithPRF
\* calls semanticSearch with topK = max(12, 2 * topK) and threshold =
\* 0.8 * threshold.
C23_FirstPassAsksForTwelve ==
    [][PrfCallBegins =>
          /\ search'.passes[1].topK = Max(12, 2 * search'.topK)
          /\ search'.passes[1].threshold = (8 * search'.threshold) \div 10]_vars

\* C23 amended: the first pass of semanticSearchWithPRF calls semanticSearch
\* with threshold 0.8 * threshold and with topK = max(15, 2 * topK) while
\* the engine's statistics count no query, max(12, 2 * topK) once they
\* count one.
C23_FirstPassAsksForFifteenAtFirst ==
    [][PrfCallBegins =>
          /\ search'.passes[1].query = search'.query
          /\ search'.passes[1].topK =
                 IF prfEngine.totalQueries = 0
                 THEN Max(15, 2 * search'.topK)
                 ELSE Max(12, 2 * search'.topK)
          /\ search'.passes[1].threshold = (8 * search'.threshold) \div 10]_vars

\* C23 witness: a call on an engine that had expanded a query before made
\* its first pass for 12 results at threshold 0.4, the caller's being 0.5.
C23_Witness ==
    /\ search.kind = "prf"
    /\ prfEngine # NoEngine
    /\ prfEngine.totalQueries >= 1
    /\ search.passes # <<>>
    /\ search.passes[1].topK = 12
    /\ search.passes[1].threshold = 40
    /\ search.threshold = 50

\* a search call has returned a list
SearchReturned == search.pc = "done" /\ search.end.kind = "returned"

\* the scores of the returned results
ReturnedScores ==
    {search.end.results[i].score : i \in 1..Len(search.end.results)}

\* C21 as stated: no result returned by semanticSearch or
\* semanticSearchWithPRF has a score below the caller's threshold, in dense
\* and in hybrid mode.
C21_NoResultBelowThreshold ==
    SearchReturned => \A score \in ReturnedScores : score >= search.threshold

\* C21 amended: in dense mode no result returned by semanticSearch (or by
\* semanticSearchWithPRF without PRF engine) has a score below the caller's
\* threshold; a result returned by semanticSearchWithPRF has a score of at
\* least 0.8 * threshold, and one below the threshold is a result of the
\* first pass.  Hybrid mode bounds no score.
C21_DenseResultsAboveThreshold ==
    (SearchReturned /\ ~isHybrid) =>
        \A i \in 1..Len(search.end.results) :
            LET result == search.end.results[i]
                lowered == (8 * search.threshold) \div 10
            IN IF search.kind = "plain" \/ prfEngine = NoEngine
               THEN result.score >= search.threshold
               ELSE /\ result.score >= lowered
                    /\ result.score < search.threshold =>
                           result \in Range(search.first)

\* C21 witness: in dense mode the store handed back a document scored 0.45
\* for the first pass and the call, made with threshold 0.5, returned it
\* after a second pass.
C21_Witness ==
    /\ SearchReturned
    /\ ~isHybrid
    /\ search.kind = "prf"
    /\ search.threshold = 50
    /\ Len(search.has) = 2
    /\ 45 \in ReturnedScores

\* C24: semanticSearch and semanticSearchWithPRF return at most topK results
\* on every path, however many documents the store hands back and whatever
\* scores the cross-encoder gives.
C24_AtMostTopK ==
    SearchReturned => Len(search.end.results) <= search.topK

\* C24 witness: with the reranker enabled the store handed back more
\* documents than topK, the cross-encoder scored them, and topK results were
\* returned.
C24_Witness ==
    /\ SearchReturned
    /\ isEnabled
    /\ search.reranked # <<>>
    /\ Len(search.answers[Len(search.answers)]) > search.topK
    /\ Len(search.end.results) = search.topK

(***************************************************************************)
(* QUERY PREPROCESSOR: SimpleQueryPreprocessor.preprocessQuery.  A string  *)
(* is a sequence of tokens: a token is a word of the vocabulary below or   *)
(* one blank " ".  Each table of the class is restricted to the entries    *)
(* that a word of the vocabulary meets.                                    *)
(***************************************************************************)

MaxVariantsLimit == 3

QueryWords ==
    {"js", "json", "getUser", "user_id", "logging", "main.py", "implement"}

\* blank queries, one word with or without padding, two words
Queries ==
    {<<>>, <<" ">>}
        \cup {<<w>> : w \in QueryWords}
        \cup {<<" ", w, " ">> : w \in QueryWords}
        \cup {<<w, " ", v>> : w \in QueryWords, v \in QueryWords}

\* the constructor: the defaults, overridden by the given configuration
PreprocessorConfigs ==
    [enableAbbreviationExpansion : BOOLEAN,
     enableConceptualMapping : BOOLEAN,
     enableCaseSplitting : BOOLEAN,
     enableFilenameDetection : BOOLEAN,
     enableLanguageDetection : BOOLEAN,
     enableImplementationFocus : BOOLEAN,
     maxVariants : -1..MaxVariantsLimit]

\* String.toLowerCase on one word
LowerWord(w) == IF w = "getUser" THEN "getuser" ELSE w

\* coreAbbreviations, in the order of the object's keys
coreAbbreviations ==
    <<[abbrev |-> "js", fullForm |-> "javascript"],
      [abbrev |-> "py", fullForm |-> "python"]>>

\* word.includes(abbrev)
WordIncludes(w, abbrev) ==
    CASE abbrev = "js" -> LowerWord(w) \in {"js", "json"}
      [] abbrev = "py" -> LowerWord(w) = "main.py"
      [] abbrev = "logging" -> LowerWord(w) = "logging"
      [] abbrev = "implement" -> LowerWord(w) = "implement"
      [] OTHER -> FALSE

QueryIncludes(query, part) ==
    \E i \in 1..Len(query) : WordIncludes(query[i], part)

\* word.replace(new RegExp(`\\b${abbrev}\\b`, 'gi'), fullForm)
ReplaceWholeWord(w, abbrev, fullForm) ==
    CASE w = "js" /\ abbrev = "js" -> fullForm
      [] w = "main.py" /\ abbrev = "py" -> "main.python"
      [] OTHER -> w

\* the values given to variants.add by expandAbbreviations, in order
expandAbbreviations(query) ==
    LET expandedQuery(a) ==
            [i \in 1..Len(query) |->
                ReplaceWholeWord(query[i], a.abbrev, a.fullForm)]
        adds[k \in 0..Len(coreAbbreviations)] ==
            IF k = 0 THEN <<>>
            ELSE LET a == coreAbbreviations[k]
                 IN IF QueryIncludes(query, a.abbrev)
                       /\ expandedQuery(a) # query
                    THEN Append(adds[k - 1], expandedQuery(a))
                    ELSE adds[k - 1]
    IN adds[Len(coreAbbreviations)]

\* conceptMap.logging
LoggingTerms ==
    <<"logging.info", "logging.error", "logging.warning", "logging.debug">>

\* the values given to variants.add by expandConcepts, in order
expandConcepts(query) ==
    IF QueryIncludes(query, "logging")
    THEN [i \in 1..Len(LoggingTerms) |-> <<LoggingTerms[i]>>]
             \o << <<"logging">> >>
    ELSE <<>>

\* query.split(/\s+/)
SplitOnSpace(query) == SelectSeq(query, LAMBDA t : t # " ")

\* query.replace(term, spacedTerm): the first occurrence only
RECURSIVE ReplaceFirst(_, _, _)
ReplaceFirst(query, term, spacedTerm) ==
    IF query = <<>> THEN <<>>
    ELSE IF Head(query) = term THEN spacedTerm \o Tail(query)
    ELSE <<Head(query)>> \o ReplaceFirst(Tail(query), term, spacedTerm)

\* the values given to variants.add by splitCases, in order
splitCases(query) ==
    LET terms == SplitOnSpace(query)
        adds[k \in 0..Len(terms)] ==
            IF k = 0 THEN <<>>
            ELSE LET term == terms[k]
                 IN CASE term = "getUser" ->
                           Append(adds[k - 1],
                                  ReplaceFirst(query, term, <<"get", " ", "User">>))
                      [] term = "user_id" ->
                           Append(adds[k - 1],
                                  ReplaceFirst(query, term, <<"user", " ", "id">>))
                      [] OTHER -> adds[k - 1]
    IN adds[Len(terms)]

\* detectLanguages: the languages of languagePatterns, in the table's order
detectLanguages(query) ==
    (IF \E i \in 1..Len(query) : query[i] = "main.py"
     THEN <<"python">> ELSE <<>>)
    \o (IF \E i \in 1..Len(query) : query[i] = "js"
        THEN <<"javascript">> ELSE <<>>)

enhanceWithLanguages(query) ==
    LET detectedLanguages == detectLanguages(query)
    IN [i \in 1..Len(detectedLanguages) |->
            query \o <<" ", detectedLanguages[i]>>]

\* detectFilenames: the matches of the file name patterns, deduplicated
detectFilenames(query) ==
    IF \E i \in 1..Len(query) : query[i] = "main.py"
    THEN <<"main.py">> ELSE <<>>

\* filename.substring(0, filename.lastIndexOf('.'))
BaseName(filename) == IF filename = "main.py" THEN "main" ELSE filename

enhanceWithFilenames(query) ==
    LET detectedFiles == detectFilenames(query)
    IN [i \in 1..Len(detectedFiles) |->
            query \o <<" ", BaseName(detectedFiles[i])>>]

addImplementationFocus(query) ==
    IF QueryIncludes(query, "implement")
    THEN <<query \o <<" ", "function", " ", "class", " ", "method", " ",
                      "implementation">> >>
    ELSE <<>>

\* every value given to the Set of variants, in the order it is given
Insertions(query, config) ==
    LET trimmedQuery == Trim(query)
    IN <<trimmedQuery>>
       \o (IF config.enableAbbreviationExpansion
           THEN expandAbbreviations(trimmedQuery) ELSE <<>>)
       \o (IF config.enableConceptualMapping
           THEN expandConcepts(trimmedQuery) ELSE <<>>)
       \o (IF config.enableCaseSplitting
           THEN splitCases(trimmedQuery) ELSE <<>>)
       \o (IF config.enableLanguageDetection
           THEN enhanceWithLanguages(trimmedQuery) ELSE <<>>)
       \o (IF config.enableFilenameDetection
           THEN enhanceWithFilenames(trimmedQuery) ELSE <<>>)
       \o (IF config.enableImplementationFocus
           THEN addImplementationFocus(trimmedQuery) ELSE <<>>)

\* a Set that keeps every value it is given
SetAddKeepsAll(variants, value) == Append(variants, value)

\* Set.prototype.add: a value already present keeps its place
SetAdd(variants, value) ==
    IF value \in Range(variants) THEN variants ELSE Append(variants, value)

\* Array.from(new Set(values))
RECURSIVE ArrayFromSet(_)
ArrayFromSet(values) ==
    IF values = <<>> THEN <<>>
    ELSE SetAdd(ArrayFromSet(SubSeq(values, 1, Len(values) - 1)),
                values[Len(values)])

\* Array.prototype.slice(0, end): a negative end counts from the end
SliceTo(list, end) ==
    LET stop == IF end < 0 THEN Max(Len(list) + end, 0) ELSE Min(end, Len(list))
    IN SubSeq(list, 1, stop)

preprocessQuery(query, config) ==
    IF Trim(query) = <<>> THEN <<query>>
    ELSE SliceTo(ArrayFromSet(Insertions(query, config)), config.maxVariants)

\* preprocessQueryWithMetadata: the patterns are detected in the query as
\* given, whatever the configuration
preprocessQueryWithMetadata(query, config) ==
    IF Trim(query) = <<>>
    THEN [originalQuery |-> query, normalizedQuery |-> query,
          expandedTerms |-> <<query>>, detectedPatterns |-> <<>>]
    ELSE LET detectedFilenames == detectFilenames(query)
             detectedLanguages == detectLanguages(query)
         IN [originalQuery |-> query,
             normalizedQuery |-> Trim(query),
             expandedTerms |-> preprocessQuery(query, config),
             detectedPatterns |->
                 [i \in 1..Len(detectedFilenames) |->
                     [kind |-> "filename", name |-> detectedFilenames[i]]]
                 \o [i \in 1..Len(detectedLanguages) |->
                        [kind |-> "language", name |-> detectedLanguages[i]]]]

\* token.includes(part) for the parts the selection looks for; no token that
\* holds one of them has a capital letter, so toLowerCase changes nothing
TokenHas(token, part) ==
    CASE part = "main.py" -> token \in {"main.py", "main.python"}
      [] part = "python" -> token \in {"python", "main.python"}
      [] part \in {"javascript", "function", "class", "method",
                   "implementation"} -> token = part
      [] OTHER -> FALSE

\* term.includes(part)
TermHas(term, part) == \E i \in 1..Len(term) : TokenHas(term[i], part)

\* String.length of a token
TokenLength(token) ==
    CASE token \in {"js", "id"} -> 2
      [] token = "get" -> 3
      [] token \in {"json", "User", "user", "main"} -> 4
      [] token = "class" -> 5
      [] token \in {"python", "method"} -> 6
      [] token \in {"getUser", "user_id", "logging", "main.py"} -> 7
      [] token = "function" -> 8
      [] token = "implement" -> 9
      [] token = "javascript" -> 10
      [] token = "main.python" -> 11
      [] token = "logging.info" -> 12
      [] token \in {"logging.error", "logging.debug"} -> 13
      [] token = "implementation" -> 14
      [] token = "logging.warning" -> 15
      [] OTHER -> 1

RECURSIVE TermLength(_)
TermLength(term) ==
    IF term = <<>> THEN 0 ELSE TokenLength(Head(term)) + TermLength(Tail(term))

\* Array.prototype.find: the index of the first element that passes, 0 for
\* undefined
FindIndex(list, Passes(_)) ==
    LET found == {i \in 1..Len(list) : Passes(list[i])}
    IN IF found = {} THEN 0
       ELSE CHOOSE i \in found : \A j \in found : i <= j

\* detectedPatterns.filter(p => p.startsWith(kind + ':')), prefix removed
PatternNames(detectedPatterns, kind) ==
    {detectedPatterns[i].name :
        i \in {j \in 1..Len(detectedPatterns) :
                  detectedPatterns[j].kind = kind}}

implementationTerms ==
    {"function", "class", "method", "implementation", "definition"}

technicalTerms ==
    {"javascript", "python", "typescript", "authentication", "configuration",
     "database"}

\* expandedTerms.reduce((longest, current) =>
\*     current.length > longest.length ? current : longest)
RECURSIVE LongestVariant(_)
LongestVariant(terms) ==
    IF Len(terms) = 1 THEN terms[1]
    ELSE LET longest == LongestVariant(SubSeq(terms, 1, Len(terms) - 1))
             current == terms[Len(terms)]
         IN IF TermLength(current) > TermLength(longest) THEN current
            ELSE longest

selectBestSearchQuery(preprocessingResult) ==
    LET originalQuery == preprocessingResult.originalQuery
        expandedTerms == preprocessingResult.expandedTerms
        filenames == PatternNames(preprocessingResult.detectedPatterns,
                                  "filename")
        languages == PatternNames(preprocessingResult.detectedPatterns,
                                  "language")
        filenameQuery ==
            FindIndex(expandedTerms,
                      LAMBDA term : \E f \in filenames : TermHas(term, f))
        languageQuery ==
            FindIndex(expandedTerms,
                      LAMBDA term : \E lang \in languages :
                                       /\ TermHas(term, lang)
                                       /\ term # originalQuery)
        implQuery ==
            FindIndex(expandedTerms,
                      LAMBDA term : /\ term # originalQuery
                                    /\ \E t \in implementationTerms :
                                          TermHas(term, t))
        technicalQuery ==
            FindIndex(expandedTerms,
                      LAMBDA term : /\ term # originalQuery
                                    /\ \E t \in technicalTerms :
                                          TermHas(term, t))
    IN CASE /\ filenames # {}
            /\ filenameQuery # 0
            /\ expandedTerms[filenameQuery] # originalQuery ->
               expandedTerms[filenameQuery]
         [] OTHER ->
       CASE languages # {} /\ languageQuery # 0 -> expandedTerms[languageQuery]
         [] OTHER ->
       CASE implQuery # 0 -> expandedTerms[implQuery]
         [] OTHER ->
       CASE technicalQuery # 0 -> expandedTerms[technicalQuery]
         [] OTHER ->
       CASE /\ Len(expandedTerms) > 1
            /\ LongestVariant(expandedTerms) # originalQuery ->
               LongestVariant(expandedTerms)
         [] OTHER -> preprocessingResult.normalizedQuery

\* Array.prototype.sort with (a, b) => b.length - a.length: stable, longest
\* first
RECURSIVE SortByLength(_)
SortByLength(terms) ==
    IF terms = <<>> THEN <<>>
    ELSE LET sorted == SortByLength(SubSeq(terms, 1, Len(terms) - 1))
             last == terms[Len(terms)]
             before == SelectSeq(sorted, LAMBDA t :
                                     TermLength(t) >= TermLength(last))
             after == SelectSeq(sorted, LAMBDA t :
                                    TermLength(t) < TermLength(last))
         IN before \o <<last>> \o after

selectTopSearchQueries(preprocessingResult, maxQueries) ==
    LET originalQuery == preprocessingResult.originalQuery
        expandedTerms == preprocessingResult.expandedTerms
        filenames == PatternNames(preprocessingResult.detectedPatterns,
                                  "filename")
        \* one priority: the first term that passes and is not used yet
        Pick(selectedQueries, Passes(_)) ==
            LET at == FindIndex(expandedTerms,
                                LAMBDA term : /\ Passes(term)
                                              /\ term \notin Range(selectedQueries))
            IN IF Len(selectedQueries) < maxQueries /\ at # 0
               THEN Append(selectedQueries, expandedTerms[at])
               ELSE selectedQueries
        byFilename ==
            IF filenames # {}
            THEN Pick(<<>>, LAMBDA term : \E f \in filenames : TermHas(term, f))
            ELSE <<>>
        byTechnical ==
            Pick(byFilename,
                 LAMBDA term : /\ term # originalQuery
                               /\ \E t \in technicalTerms : TermHas(term, t))
        byImplementation ==
            Pick(byTechnical,
                 LAMBDA term : /\ term # originalQuery
                               /\ \E t \in implementationTerms \ {"definition"} :
                                     TermHas(term, t))
        remainingVariants ==
            SortByLength(SelectSeq(expandedTerms,
                                   LAMBDA term :
                                       /\ term \notin Range(byImplementation)
                                       /\ term # originalQuery))
        filled ==
            byImplementation
                \o SubSeq(remainingVariants, 1,
                          Min(Len(remainingVariants),
                              Max(maxQueries - Len(byImplementation), 0)))
    IN IF filled = <<>> THEN <<preprocessingResult.normalizedQuery>>
       ELSE filled

\* mutant: two variants are enough for the multi-query search
useMultipleVariantsFromTwo(preprocessingResult) ==
    /\ Len(preprocessingResult.expandedTerms) >= 2
    /\ Len(preprocessingResult.detectedPatterns) > 0

\* expandedTerms.length > 2 && detectedPatterns.length > 0
useMultipleVariants(preprocessingResult) ==
    /\ Len(preprocessingResult.expandedTerms) > 2
    /\ Len(preprocessingResult.detectedPatterns) > 0

NothingSelected ==
    [called |-> FALSE, query |-> <<>>, multi |-> FALSE, searchQueries |-> <<>>,
     primarySearchQuery |-> <<>>]

PreprocessorInit ==
    /\ preprocessorConfig \in PreprocessorConfigs
    /\ preprocessed = [query |-> <<>>, value |-> <<>>, called |-> FALSE]
    /\ selected = NothingSelected

PreprocessQuery(query) ==
    /\ preprocessed' = [query |-> query,
                        value |-> preprocessQuery(query, preprocessorConfig),
                        called |-> TRUE]
    /\ UNCHANGED <<preprocessorConfig, selected>>
    /\ PreprocessorOnly

PreprocessorNext == \E query \in Queries : PreprocessQuery(query)

\* semanticSearch from its first line to primarySearchQuery: the query is
\* preprocessed and the search queries are selected from the variants, three
\* by selectTopSearchQueries ("Using multi-query search") or one by
\* selectBestSearchQuery
SelectSearchQueries(query) ==
    LET preprocessingResult ==
            preprocessQueryWithMetadata(query, preprocessorConfig)
        multi == useMultipleVariants(preprocessingResult)
        searchQueries ==
            IF multi THEN selectTopSearchQueries(preprocessingResult, 3)
            ELSE <<selectBestSearchQuery(preprocessingResult)>>
    IN /\ selected' = [called |-> TRUE, query |-> query, multi |-> multi,
                       searchQueries |-> searchQueries,
                       primarySearchQuery |-> searchQueries[1]]
       /\ UNCHANGED <<preprocessorConfig, preprocessed>>
       /\ PreprocessorOnly

\* the queries of the searches: blank, one word, a padded file name, and a
\* language or a file name followed by a second word
SelectionQueries ==
    {<<>>, <<" ">>, <<" ", "main.py", " ">>}
        \cup {<<w>> : w \in QueryWords}
        \cup {<<w, " ", v>> : w \in {"js", "main.py"}, v \in QueryWords}

SelectionNext == \E query \in SelectionQueries : SelectSearchQueries(query)

(***************************************************************************)
(* Claims about the query preprocessor.                                    *)
(***************************************************************************)

NonBlankCall == preprocessed.called /\ Trim(preprocessed.query) # <<>>

DuplicateFree(list) ==
    \A i, j \in 1..Len(list) : list[i] = list[j] => i = j

\* the place of the first insertion of a value
FirstInsertion(values, value) ==
    CHOOSE i \in 1..Len(values) :
        /\ values[i] = value
        /\ \A j \in 1..(i - 1) : values[j] # value

InInsertionOrder(list, values) ==
    /\ \A i \in 1..Len(list) : list[i] \in Range(values)
    /\ \A i, j \in 1..Len(list) :
          i < j => FirstInsertion(values, list[i]) < FirstInsertion(values, list[j])

VariantsContract ==
    LET value == preprocessed.value
    IN /\ DuplicateFree(value)
       /\ Len(value) <= preprocessorConfig.maxVariants
       /\ InInsertionOrder(value,
                           Insertions(preprocessed.query, preprocessorConfig))
       /\ value # <<>>
       /\ value[1] = Trim(preprocessed.query)

\* C16: for every non-blank query and every configuration, preprocessQuery
\* returns a duplicate-free list of at most maxVariants variants in insertion
\* order, whose first element is the trimmed query.
C16_VariantsContract == NonBlankCall => VariantsContract

\* C16, amended: the same for every configuration whose maxVariants is at
\* least 1; with maxVariants 0 the list is empty, and with a negative
\* maxVariants slice drops variants from the end instead of bounding the list.
C16_VariantsContractPositiveLimit ==
    (NonBlankCall /\ preprocessorConfig.maxVariants >= 1) => VariantsContract

\* C16 witness: a padded query whose concept stage gives the trimmed query to
\* the Set again, and whose five variants were cut to maxVariants.
C16_Witness ==
    /\ NonBlankCall
    /\ preprocessorConfig.maxVariants = 2
    /\ preprocessorConfig.enableConceptualMapping
    /\ preprocessed.query = <<" ", "logging", " ">>
    /\ preprocessed.value = << <<"logging">>, <<"logging.info">> >>

\* the variants and the patterns the preprocessor gives for the query of the
\* last search
SelectedFrom == preprocessQueryWithMetadata(selected.query, preprocessorConfig)

\* C22 as stated: semanticSearch uses the multi-query selection exactly when
\* the preprocessor produced at least 2 variants and detected at least one
\* pattern, and the single-query selection in every other case.
C22_MultiQueryFromTwoVariants ==
    selected.called =>
        LET from == SelectedFrom
        IN /\ selected.multi <=>
                 /\ Len(from.expandedTerms) >= 2
                 /\ Len(from.detectedPatterns) >= 1
           /\ selected.searchQueries =
                 IF selected.multi THEN selectTopSearchQueries(from, 3)
                 ELSE <<selectBestSearchQuery(from)>>

\* C22 amended: semanticSearch uses the multi-query selection exactly when
\* the preprocessor produced at least 3 variants, the trimmed query counted,
\* and detected at least one pattern, and the single-query selection in
\* every other case.
C22_MultiQueryFromThreeVariants ==
    selected.called =>
        LET from == SelectedFrom
        IN /\ selected.multi <=>
                 /\ Len(from.expandedTerms) >= 3
                 /\ Len(from.detectedPatterns) >= 1
           /\ selected.searchQueries =
                 IF selected.multi THEN selectTopSearchQueries(from, 3)
                 ELSE <<selectBestSearchQuery(from)>>

\* C22 witness: "js main.py" gave three variants and three patterns, and the
\* search took the multi-query selection, the file name variant first.
C22_Witness ==
    /\ selected.called
    /\ selected.query = <<"js", " ", "main.py">>
    /\ Len(SelectedFrom.expandedTerms) = 3
    /\ Len(SelectedFrom.detectedPatterns) = 3
    /\ selected.multi
    /\ Len(selected.searchQueries) > 1
    /\ selected.primarySearchQuery = <<"js", " ", "main.py">>

(***************************************************************************)
(* SYNCHRONIZERS: the first lines of Context.reindexByChange, for calls    *)
(* on one codebase that overlap in time.  A call runs without interruption *)
(* from one await to the next; the other calls run in between.             *)
(***************************************************************************)
\* the number of reindexByChange calls that can be in progress together
NumReindexCalls == 3

\* the number of FileSynchronizer instances constructed in a run
MaxInstances == 3

ReindexCalls == 1..NumReindexCalls

\* a call that has not started or has returned; current is the instance its
\* last run called checkForChanges on
IdleCall == [pc |-> "idle", newSynchronizer |-> 0, current |-> 0]

SynchronizerInit ==
    /\ synchronizers = 0
    /\ instances = 0
    /\ reindexCalls = [c \in ReindexCalls |-> IdleCall]
    /\ checkedWith = {}

\* synchronizers.get(collectionName)!, then the call of checkForChanges
UseCurrent(c) ==
    /\ reindexCalls' = [reindexCalls EXCEPT ![c] =
                           [pc |-> "checkForChanges", newSynchronizer |-> 0,
                            current |-> synchronizers']]
    /\ checkedWith' = checkedWith \cup {synchronizers'}

\* the call begins: it finds the synchronizer, or awaits loadIgnorePatterns
ReindexBegin(c) ==
    /\ reindexCalls[c].pc = "idle"
    /\ IF synchronizers # 0
       THEN /\ UNCHANGED <<synchronizers, instances>>
            /\ UseCurrent(c)
       ELSE /\ reindexCalls' = [reindexCalls EXCEPT ![c] =
                                   [IdleCall EXCEPT !.pc = "loadIgnorePatterns"]]
            /\ UNCHANGED <<synchronizers, instances, checkedWith>>
    /\ SynchronizerOnly

\* loadIgnorePatterns is done: new FileSynchronizer(...), await initialize()
NewSynchronizer(c) ==
    /\ reindexCalls[c].pc = "loadIgnorePatterns"
    /\ instances < MaxInstances
    /\ instances' = instances + 1
    /\ reindexCalls' = [reindexCalls EXCEPT ![c] =
                           [pc |-> "initialize", newSynchronizer |-> instances',
                            current |-> 0]]
    /\ UNCHANGED <<synchronizers, checkedWith>>
    /\ SynchronizerOnly

\* this.synchronizers.set(collectionName, newSynchronizer)
SetSynchronizer(stored, newSynchronizer) == newSynchronizer

\* initialize() is done: the instance is stored and used
Initialized(c) ==
    /\ reindexCalls[c].pc = "initialize"
    /\ synchronizers' =
           SetSynchronizer(synchronizers, reindexCalls[c].newSynchronizer)
    /\ UNCHANGED instances
    /\ UseCurrent(c)
    /\ SynchronizerOnly

\* initialize() rejects: the call ends with the error, nothing is stored
InitializeRejects(c) ==
    /\ reindexCalls[c].pc = "initialize"
    /\ reindexCalls' = [reindexCalls EXCEPT ![c] = IdleCall]
    /\ UNCHANGED <<synchronizers, instances, checkedWith>>
    /\ SynchronizerOnly

\* checkForChanges and the rest of the call are done: the call returns
ReindexEnd(c) ==
    /\ reindexCalls[c].pc = "checkForChanges"
    /\ reindexCalls' = [reindexCalls EXCEPT ![c].pc = "idle"]
    /\ UNCHANGED <<synchronizers, instances, checkedWith>>
    /\ SynchronizerOnly

SynchronizerNext ==
    \E c \in ReindexCalls :
        \/ ReindexBegin(c)
        \/ NewSynchronizer(c)
        \/ Initialized(c)
        \/ InitializeRejects(c)
        \/ ReindexEnd(c)

(***************************************************************************)
(* Claims about the synchronizers.                                         *)
(***************************************************************************)
\* C20: across any sequence or interleaving of reindexByChange calls for one
\* codebase, at most one synchronizer instance is created for its collection
\* and every call uses that same instance.
C20_OneSynchronizerPerCollection ==
    /\ instances <= 1
    /\ Cardinality(checkedWith) <= 1

PrfParked ==
    /\ prfConfig = [topK |-> 0]
    /\ prfStats = NoStats
    /\ prfOutcome = [kind |-> "parked"]

ChunkerParked ==
    /\ chunkSize = 1
    /\ chunkOverlap = 0
    /\ extracted = <<>>
    /\ refined = <<>>
    /\ splitterPc = "parked"
    /\ language = "none"
    /\ rootChildren = <<>>
    /\ importGroup = NoGroup
    /\ deduplicated = <<>>

IndexerParked ==
    /\ store = {}
    /\ job = [IdleJob EXCEPT !.pc = "parked"]
    /\ delQueue = <<>>
    /\ filePaths = <<>>
    /\ fileIndex = 0
    /\ pendingChunks = <<>>
    /\ chunkBuffer = <<>>
    /\ processedFiles = 0
    /\ totalChunks = 0
    /\ limitReached = FALSE
    /\ jobResult = NoResult
    /\ deleteQueried = <<>>
    /\ deleteIssued = {}
    /\ inserted = {}
    /\ dropped = {}
    /\ handed = <<>>
    /\ processedChanges = 0
    /\ reports = <<>>

RerankerParked ==
    /\ rerankerEnabled = FALSE
    /\ initialized = FALSE
    /\ initializationPromise = 0
    /\ promises = <<>>
    /\ callers = <<>>

SynchronizerParked ==
    /\ synchronizers = 0
    /\ instances = 0
    /\ reindexCalls = <<>>
    /\ checkedWith = {}

PreprocessorParked ==
    /\ preprocessorConfig = [maxVariants |-> 0]
    /\ preprocessed = [query |-> <<>>, value |-> <<>>, called |-> FALSE]
    /\ selected = NothingSelected

RetrieverParked ==
    /\ isHybrid = FALSE
    /\ prfEngine = [kind |-> "parked"]
    /\ reranker = "none"
    /\ collection = FALSE
    /\ search = [pc |-> "parked"]

InitIndexer ==
    /\ IndexerInit
    /\ ChunkerParked /\ RerankerParked /\ CacheParked /\ PrfParked
    /\ RetrieverParked /\ PreprocessorParked /\ SynchronizerParked

SpecIndexer == InitIndexer /\ [][IndexerNext]_vars

InitChunker ==
    /\ ChunkerInit
    /\ IndexerParked /\ RerankerParked /\ CacheParked /\ PrfParked
    /\ RetrieverParked /\ PreprocessorParked /\ SynchronizerParked

SpecChunker == InitChunker /\ [][ChunkerNext]_vars

InitSplitter ==
    /\ SplitterInit
    /\ IndexerParked /\ RerankerParked /\ CacheParked /\ PrfParked
    /\ RetrieverParked /\ PreprocessorParked /\ SynchronizerParked

SpecSplitter == InitSplitter /\ [][SplitterNext]_vars

InitReranker ==
    /\ RerankerInit
    /\ IndexerParked /\ ChunkerParked /\ CacheParked /\ PrfParked
    /\ RetrieverParked /\ PreprocessorParked /\ SynchronizerParked

SpecReranker == InitReranker /\ [][RerankerNext]_vars

InitCache ==
    /\ CacheInit
    /\ IndexerParked /\ ChunkerParked /\ RerankerParked /\ PrfParked
    /\ RetrieverParked /\ PreprocessorParked /\ SynchronizerParked

SpecCache == InitCache /\ [][CacheNext]_vars

SpecEmbedder == InitCache /\ [][EmbedderNext]_vars

InitCleanup ==
    /\ CleanupInit
    /\ IndexerParked /\ ChunkerParked /\ RerankerParked /\ PrfParked
    /\ RetrieverParked /\ PreprocessorParked /\ SynchronizerParked

SpecCacheCleanup == InitCleanup /\ [][CacheNext]_vars

InitPrf ==
    /\ PrfInit
    /\ IndexerParked /\ ChunkerParked /\ RerankerParked /\ CacheParked
    /\ RetrieverParked /\ PreprocessorParked /\ SynchronizerParked

SpecPRF == InitPrf /\ [][PrfNext]_vars

InitRetriever ==
    /\ RetrieverInit
    /\ IndexerParked /\ ChunkerParked /\ RerankerParked /\ CacheParked
    /\ PrfParked /\ PreprocessorParked /\ SynchronizerParked

SpecRetriever == InitRetriever /\ [][RetrieverNext]_vars

InitPreprocessor ==
    /\ PreprocessorInit
    /\ IndexerParked /\ ChunkerParked /\ RerankerParked /\ CacheParked
    /\ PrfParked /\ RetrieverParked /\ SynchronizerParked

SpecPreprocessor == InitPreprocessor /\ [][PreprocessorNext]_vars

SpecSelection == InitPreprocessor /\ [][SelectionNext]_vars

InitSynchronizer ==
    /\ SynchronizerInit
    /\ IndexerParked /\ ChunkerParked /\ RerankerParked /\ CacheParked
    /\ PrfParked /\ RetrieverParked /\ PreprocessorParked

SpecSynchronizer == InitSynchronizer /\ [][SynchronizerNext]_vars

=============================================================================
